---- MODULE Spec2Model ----
(***************************************************************************)
(* Order / payment orchestration of backend/server.py (RUNETIC).           *)
(*                                                                         *)
(* The server is a stateless set of request handlers over MongoDB          *)
(* collections.  A handler runs as a coroutine: every `await db...` is one *)
(* atomic store round trip, and other handlers may run between two of      *)
(* them.  A handler in flight is a frame (its request, its position and    *)
(* its locals); a finished frame keeps the HTTP response it returned.      *)
(*                                                                         *)
(* Money is kept in whole pesos; the carts and percentages used make       *)
(* subtotal * value / 100 exact, so Python's float arithmetic and the      *)
(* integer arithmetic here agree on every value that occurs.               *)
(* Collections are sequences in insertion order (MongoDB's natural order): *)
(* find_one / update_one act on the first document matching the filter.    *)
(***************************************************************************)
EXTENDS Integers, Sequences, FiniteSets, TLC

VARIABLES
    now,               \* datetime.now(timezone.utc), in minutes
    next_uuid,         \* number of uuid.uuid4() values drawn so far
    orders,            \* db.orders
    discount_codes,    \* db.discount_codes
    products,          \* db.products: product code -> stock[version, size]
    email_logs,        \* db.email_logs
    inventory_batches, \* db.inventory_batches
    inventory_entries, \* db.inventory_entries
    payment_attempts,  \* db.payment_attempts
    payment_transactions,  \* db.payment_transactions (legacy collection)
    frames             \* handler coroutines: slot -> frame

vars == <<now, next_uuid, orders, discount_codes, products, email_logs,
          inventory_batches, inventory_entries, payment_attempts,
          payment_transactions, frames>>

\* ------------------------------------------------------------------ bounds

MaxTime == 1         \* SpecPay: sixteen-minute steps of the clock
MaxOrders == 1       \* Spec: orders created
MaxCodes == 1        \* Spec: discount-code documents created
MaxConcOrders == 2   \* SpecConc: create_order requests started
MaxConcCodes == 2    \* SpecConc: discount-code documents created
MaxProcs == 2        \* SpecConc: handlers in flight at once
MaxSeed == 1         \* seeds of the random draws of generate_pickup_token
MaxPayOrders == 1    \* SpecPay: orders created
MaxAttempts == 2     \* SpecPay: payment attempts inserted
MaxCodOrders == 1    \* SpecCod: orders created
MaxCodAttempts == 1  \* SpecCod: payment attempts inserted
MaxDiscOrders == 2   \* SpecDisc: orders created
MaxBatches == 1      \* SpecBatch: batches created
MaxRaceAttempts == 2 \* SpecRace: payment attempts inserted
MaxGuardAttempts == 3 \* SpecGuard: payment attempts inserted
MaxNotifyOrders == 2  \* SpecNotify: checkouts accepted
MaxStockOrders == 2   \* SpecStock: checkouts accepted
MaxStockEntries == 1  \* SpecStock: inventory entries inserted
MaxRedeemOrders == 2  \* SpecRedeem: checkouts accepted
MaxRedeemCodes == 1   \* SpecRedeem: discount-code documents created

\* ------------------------------------------------------------------ values

\* Optional[...]: None is <<>>, a present value v is <<v>>.
None == <<>>
Some(v) == <<v>>
Val(x) == x[1]

\* Python truthiness of an Optional[int] (None and 0 are falsy) and of an
\* Optional[str] (None and "" are falsy).
TruthyInt(x) == x # None /\ Val(x) # 0
TruthyStr(x) == x # None /\ Val(x) # ""

RECURSIVE SumOver(_, _)
SumOver(items, field) ==
    IF items = <<>> THEN 0
    ELSE Head(items)[field] + SumOver(Tail(items), field)

\* find_one(filter): index of the first document matching, 0 when none.
FirstIndex(coll, P(_)) ==
    IF \E i \in 1..Len(coll) : P(coll[i])
    THEN CHOOSE i \in 1..Len(coll) :
             P(coll[i]) /\ \A j \in 1..(i - 1) : ~P(coll[j])
    ELSE 0

\* update_one(filter, update): the first matching document is replaced.
UpdateOne(coll, P(_), f(_)) ==
    LET i == FirstIndex(coll, P)
    IN  IF i = 0 THEN coll ELSE [coll EXCEPT ![i] = f(coll[i])]

\* ------------------------------------------------------------------ frames

Procs == 1..MaxProcs

IdleFrame == [op |-> "idle", pc |-> "idle"]

Running(p) == frames[p].pc \notin {"idle", "done"}

\* A new request is taken by the lowest slot whose handler is not running.
Free(p) == ~Running(p) /\ \A q \in Procs : q < p => Running(q)

HTTPException(f, status_code, detail) ==
    [op |-> f.op, pc |-> "done", req |-> f.req,
     res |-> [status_code |-> status_code, detail |-> detail]]

\* ------------------------------------------------------------------ checkout

SHIPPING_COST == 15000
FREE_SHIPPING_MIN_UNITS == 6

string_ascii_uppercase_digits ==
    <<"A", "B", "C", "D", "E", "F", "G", "H", "I", "J", "K", "L", "M",
      "N", "O", "P", "Q", "R", "S", "T", "U", "V", "W", "X", "Y", "Z",
      "0", "1", "2", "3", "4", "5", "6", "7", "8", "9">>

\* random.choices(chars, k=8): eight indices into chars.  The draws explored
\* are a bounded family of the 36^8 possible ones.
TokenDraws ==
    {[i \in 1..8 |-> 1 + ((seed * 7 * i) % 36)] : seed \in 0..MaxSeed}

\* A variant of the token with seven random characters.
generate_short_pickup_token(draw) ==
    <<"C", "O", "D", "-">>
        \o [i \in 1..7 |-> string_ascii_uppercase_digits[draw[i]]]

generate_pickup_token(draw) ==
    <<"C", "O", "D", "-">>
        \o [i \in 1..8 |-> string_ascii_uppercase_digits[draw[i]]]

\* f"{full_name}|{phone}|{address}"
customer_data(full_name, phone, address) ==
    full_name \o <<"|">> \o phone \o <<"|">> \o address

\* Variants of the shipping rule that the shipping properties must tell apart
\* from the code: free shipping only above the threshold, and the retail rule
\* applied to every customer.
ShippingCostAboveThreshold(customer_type, total_units, explicit) ==
    IF explicit # None
    THEN Val(explicit)
    ELSE IF customer_type = "wholesale"
         THEN SHIPPING_COST
         ELSE IF total_units > FREE_SHIPPING_MIN_UNITS THEN 0 ELSE SHIPPING_COST

ShippingCostRetailForAll(customer_type, total_units, explicit) ==
    IF explicit # None
    THEN Val(explicit)
    ELSE IF total_units >= FREE_SHIPPING_MIN_UNITS THEN 0 ELSE SHIPPING_COST

\* Lines 610-625 of create_order.
ShippingCost(customer_type, total_units, explicit) ==
    IF explicit # None
    THEN Val(explicit)
    ELSE IF customer_type = "wholesale"
         THEN SHIPPING_COST
         ELSE IF total_units >= FREE_SHIPPING_MIN_UNITS THEN 0 ELSE SHIPPING_COST

\* Lines 598-602 of create_order.
DiscountAmount(code, subtotal) ==
    IF code.discount_type = "percentage"
    THEN (subtotal * code.discount_value) \div 100
    ELSE code.discount_value

\* Line 587 / 869: `code.get("max_uses") and current_uses >= max_uses`.
LimitReached(code) ==
    TruthyInt(code.max_uses) /\ code.current_uses >= Val(code.max_uses)

\* Line 583 / 866.
Expired(code) ==
    code.valid_until # None /\ Val(code.valid_until) < now

\* Lines 591-595.
AlreadyUsedBy(code, addr) ==
    /\ code.code_type = "normal"
    /\ \E k \in 1..Len(code.used_by) :
           customer_data(code.used_by[k].name, code.used_by[k].phone,
                         code.used_by[k].address)
               = customer_data(addr.full_name, addr.phone, addr.address)

\* The reason create_order rejects the discount code of `req`, "" when it
\* does not (lines 577-595).
DiscountRejection(req) ==
    IF ~TruthyStr(req.discount_code) THEN ""
    ELSE LET i == FirstIndex(discount_codes,
                     LAMBDA d : d.code = Val(req.discount_code) /\ d.active)
         IN  IF i = 0 THEN "Invalid discount code"
             ELSE IF Expired(discount_codes[i]) THEN "Discount code expired"
             ELSE IF LimitReached(discount_codes[i])
                  THEN "Discount code limit reached"
             ELSE IF AlreadyUsedBy(discount_codes[i], req.shipping_address)
                  THEN "You have already used this discount code"
             ELSE ""

\* A variant of the total that forgets the discount.
OrderTotalNoDiscount(subtotal, discount_amount, shipping_cost) ==
    subtotal + shipping_cost

\* Line 627.
OrderTotal(subtotal, discount_amount, shipping_cost) ==
    subtotal - discount_amount + shipping_cost

\* Lines 650-655: the token of a cash-on-delivery order, None otherwise.
PickupTokenFor(payment_method, draw) ==
    IF payment_method = "cash_on_delivery"
    THEN Some(generate_pickup_token(draw))
    ELSE None

\* Lines 597-655: the document create_order is about to insert.
OrderDict(req, uuid, draw) ==
    LET subtotal == SumOver(req.items, "total_price")
        total_units == SumOver(req.items, "quantity")
        i == FirstIndex(discount_codes,
                 LAMBDA d : d.code = Val(req.discount_code) /\ d.active)
        discount_amount ==
            IF TruthyStr(req.discount_code)
            THEN DiscountAmount(discount_codes[i], subtotal)
            ELSE 0
        shipping_cost ==
            ShippingCost(req.customer_type, total_units, req.shipping_cost)
    IN  [id |-> uuid,
         order_number |-> <<"ORD", uuid>>,
         customer_type |-> req.customer_type,
         items |-> req.items,
         subtotal |-> subtotal,
         discount_code |-> req.discount_code,
         discount_amount |-> discount_amount,
         shipping_cost |-> shipping_cost,
         total_amount |-> OrderTotal(subtotal, discount_amount, shipping_cost),
         shipping_address |-> req.shipping_address,
         payment_method |-> req.payment_method,
         payment_status |-> "pending",
         order_status |-> "pending",
         pickup_token |-> PickupTokenFor(req.payment_method, draw),
         pickup_token_used |-> FALSE,
         \* fields the payment handlers add later; absent is None
         latest_payment_reference |-> None,
         wompi_transaction_id |-> None,
         payment_reference |-> None,
         payment_attempts |-> <<>>]

\* A variant of the start of create_order that counts the use of the code it
\* read before it runs the checks on it.
CreateOrderBeginCountingFirst(p, req) ==
    /\ Free(p)
    /\ LET f == [op |-> "create_order", pc |-> "begin", req |-> req]
           why == DiscountRejection(req)
       IN  IF why # ""
           THEN /\ frames' = [frames EXCEPT ![p] = HTTPException(f, 400, why)]
                /\ discount_codes' = UpdateOne(discount_codes,
                       LAMBDA d : d.code = Val(req.discount_code),
                       LAMBDA d : [d EXCEPT !.current_uses = @ + 1])
                /\ UNCHANGED next_uuid
           ELSE \E draw \in TokenDraws :
                  /\ next_uuid' = next_uuid + 1
                  /\ frames' = [frames EXCEPT ![p] =
                        [op |-> "create_order",
                         pc |-> IF req.payment_method = "cash_on_delivery"
                                THEN "send_email" ELSE "insert_order",
                         req |-> req,
                         order_dict |-> OrderDict(req, next_uuid + 1, draw)]]
                  /\ UNCHANGED discount_codes
    /\ UNCHANGED <<now, orders, products, email_logs, inventory_batches,
                   inventory_entries, payment_attempts, payment_transactions>>

\* create_order up to its first store write (lines 574-655): the read of the
\* discount code, the checks, the totals and the token.
CreateOrderBegin(p, req) ==
    /\ Free(p)
    /\ LET f == [op |-> "create_order", pc |-> "begin", req |-> req]
           why == DiscountRejection(req)
       IN  IF why # ""
           THEN /\ frames' = [frames EXCEPT ![p] = HTTPException(f, 400, why)]
                /\ UNCHANGED next_uuid
           ELSE \E draw \in TokenDraws :
                  /\ next_uuid' = next_uuid + 1
                  /\ frames' = [frames EXCEPT ![p] =
                        [op |-> "create_order",
                         pc |-> IF req.payment_method = "cash_on_delivery"
                                THEN "send_email" ELSE "insert_order",
                         req |-> req,
                         order_dict |-> OrderDict(req, next_uuid + 1, draw)]]
    /\ UNCHANGED <<now, orders, discount_codes, products, email_logs,
                   inventory_batches, inventory_entries, payment_attempts,
                   payment_transactions>>

\* send_pickup_token_email (lines 117-148, called at 657).
CreateOrderSendEmail(p) ==
    /\ frames[p].op = "create_order" /\ frames[p].pc = "send_email"
    /\ email_logs' = Append(email_logs,
           [to |-> frames[p].req.shipping_address.email,
            order_number |-> frames[p].order_dict.order_number,
            token |-> Val(frames[p].order_dict.pickup_token)])
    /\ frames' = [frames EXCEPT ![p].pc = "insert_order"]
    /\ UNCHANGED <<now, next_uuid, orders, discount_codes, products,
                   inventory_batches, inventory_entries, payment_attempts,
                   payment_transactions>>

\* send_pickup_token_email raises: insert_one of line 145 fails.  create_order
\* awaits the call at line 657 outside any try, so the exception leaves the
\* handler and the request is answered 500.
CreateOrderSendEmailFails(p) ==
    /\ frames[p].op = "create_order" /\ frames[p].pc = "send_email"
    /\ frames' = [frames EXCEPT ![p] =
           HTTPException(frames[p], 500, "Internal Server Error")]
    /\ UNCHANGED <<now, next_uuid, orders, discount_codes, products,
                   email_logs, inventory_batches, inventory_entries,
                   payment_attempts, payment_transactions>>

\* Line 665.
CreateOrderInsert(p) ==
    /\ frames[p].op = "create_order" /\ frames[p].pc = "insert_order"
    /\ orders' = Append(orders, frames[p].order_dict)
    /\ frames' = [frames EXCEPT ![p].pc =
           IF TruthyStr(frames[p].req.discount_code)
           THEN "update_discount" ELSE "update_stock"]
    /\ UNCHANGED <<now, next_uuid, discount_codes, products, email_logs,
                   inventory_batches, inventory_entries, payment_attempts,
                   payment_transactions>>

\* A variant of the redemption that counts the use and keeps no fingerprint.
RedeemUpdateCountOnly(d, addr) == [d EXCEPT !.current_uses = @ + 1]

\* Lines 668-682: $inc current_uses, $push used_by on the first document
\* whose code matches (the filter does not ask for an active one).
RedeemUpdate(d, addr) ==
    [d EXCEPT !.current_uses = @ + 1,
              !.used_by = Append(@, [name |-> addr.full_name,
                                     email |-> addr.email,
                                     phone |-> addr.phone,
                                     address |-> addr.address])]

CreateOrderUpdateDiscount(p) ==
    /\ frames[p].op = "create_order" /\ frames[p].pc = "update_discount"
    /\ discount_codes' = UpdateOne(discount_codes,
           LAMBDA d : d.code = Val(frames[p].req.discount_code),
           LAMBDA d : RedeemUpdate(d, frames[p].req.shipping_address))
    /\ frames' = [frames EXCEPT ![p].pc = "update_stock"]
    /\ UNCHANGED <<now, next_uuid, orders, products, email_logs,
                   inventory_batches, inventory_entries, payment_attempts,
                   payment_transactions>>

\* A variant of the bulk write that leaves a stock count at zero instead of
\* taking it below.
RECURSIVE BulkDecrementFloored(_, _)
BulkDecrementFloored(stock, items) ==
    IF items = <<>> THEN stock
    ELSE LET it == Head(items)
             sku == <<it.version_type, it.size>>
             after ==
                 IF it.product_code \in DOMAIN stock
                 THEN [stock EXCEPT ![it.product_code][sku] =
                          IF @ - it.quantity < 0 THEN 0 ELSE @ - it.quantity]
                 ELSE stock
         IN  BulkDecrementFloored(after, Tail(items))

\* Lines 684-694: one $inc per line item, in order, on the product whose code
\* matches; a product that does not exist is left alone.
RECURSIVE BulkDecrement(_, _)
BulkDecrement(stock, items) ==
    IF items = <<>> THEN stock
    ELSE LET it == Head(items)
             sku == <<it.version_type, it.size>>
             after ==
                 IF it.product_code \in DOMAIN stock
                 THEN [stock EXCEPT ![it.product_code][sku] = @ - it.quantity]
                 ELSE stock
         IN  BulkDecrement(after, Tail(items))

\* Lines 684-701: the bulk write and the response.
CreateOrderUpdateStock(p) ==
    /\ frames[p].op = "create_order" /\ frames[p].pc = "update_stock"
    /\ products' = BulkDecrement(products, frames[p].req.items)
    /\ frames' = [frames EXCEPT ![p] =
           [op |-> "create_order", pc |-> "done", req |-> frames[p].req,
            order_dict |-> frames[p].order_dict,
            res |-> [status_code |-> 200,
                     detail |-> "Order created",
                     order_id |-> frames[p].order_dict.id,
                     order_number |-> frames[p].order_dict.order_number,
                     pickup_token |-> frames[p].order_dict.pickup_token]]]
    /\ UNCHANGED <<now, next_uuid, orders, discount_codes, email_logs,
                   inventory_batches, inventory_entries, payment_attempts,
                   payment_transactions>>

\* create_discount_code (lines 833-844): the document is inserted as given.
CreateDiscountCode(code) ==
    /\ discount_codes' = Append(discount_codes, code)
    /\ UNCHANGED <<now, next_uuid, orders, products, email_logs,
                   inventory_batches, inventory_entries, payment_attempts,
                   payment_transactions, frames>>

\* validate_discount_code (lines 859-872): one read, then the checks in the
\* order of the code.
ValidateDiscountCode(p, data) ==
    /\ Free(p)
    /\ LET f == [op |-> "validate_discount_code", pc |-> "done",
                 req |-> data]
           i == FirstIndex(discount_codes,
                    LAMBDA d : d.code = data.code /\ d.active)
       IN  frames' = [frames EXCEPT ![p] =
               IF i = 0
               THEN HTTPException(f, 404, "Código de descuento inválido")
               ELSE IF Expired(discount_codes[i])
               THEN HTTPException(f, 400, "Código de descuento expirado")
               ELSE IF LimitReached(discount_codes[i])
               THEN HTTPException(f, 400, "Código de descuento agotado")
               ELSE [op |-> f.op, pc |-> "done", req |-> data,
                     res |-> [status_code |-> 200, detail |-> "valid",
                              discount_type |->
                                  discount_codes[i].discount_type,
                              discount_value |->
                                  discount_codes[i].discount_value]]]
    /\ UNCHANGED <<now, next_uuid, orders, discount_codes, products,
                   email_logs, inventory_batches, inventory_entries,
                   payment_attempts, payment_transactions>>

\* Time passes; the clock counts minutes and moves sixteen at a time.
Tick ==
    /\ now < 16 * MaxTime
    /\ now' = now + 16
    /\ UNCHANGED <<next_uuid, orders, discount_codes, products, email_logs,
                   inventory_batches, inventory_entries, payment_attempts,
                   payment_transactions, frames>>

\* ------------------------------------------------------------------ payments

\* The statuses the guards of check-pending and create-transaction look for
\* (lines 1370, 1399).
PendingStatuses == {"initiated", "pending", "PENDING"}

\* The statuses create-pse rewrites before its guard (line 1583).
RetryStatuses == {"initiated", "failed", "DECLINED", "ERROR", "VOIDED"}

\* timedelta(minutes=15), line 1599.
PENDING_TIMEOUT_MINUTES == 15

\* f"RUN{timestamp}{random_part}" (lines 1426-1428, 1629-1631): the three
\* parts of the string.
UniqueReference(timestamp, random_part) == <<"RUN", timestamp, random_part>>

\* The first eight hex digits of a uuid4 that the handlers may draw.
RandomParts == {"0A1B2C3D"}

\* A variant of attempt_data that starts the attempt as pending.
AttemptDataPending(uuid, req, reference, payment_method) ==
    [id |-> uuid, order_id |-> req.order_id, reference |-> reference,
     amount_in_cents |-> req.amount_in_cents, status |-> "pending",
     payment_method |-> payment_method, created_at |-> now,
     wompi_transaction_id |-> None, error |-> None, completed_at |-> None]

\* attempt_data of the four handlers that insert an attempt.
AttemptData(uuid, req, reference, payment_method) ==
    [id |-> uuid, order_id |-> req.order_id, reference |-> reference,
     amount_in_cents |-> req.amount_in_cents, status |-> "initiated",
     payment_method |-> payment_method, created_at |-> now,
     \* fields later updates add; absent is None
     wompi_transaction_id |-> None, error |-> None, completed_at |-> None]

\* A variant of the guard's read that also sees the calls that have passed
\* the guard for the order and have not inserted their attempt yet.
PendingIndexReserving(order_id) ==
    IF \E q \in Procs :
           /\ frames[q].op \in {"create_transaction", "create_pse"}
           /\ frames[q].pc \in {"get_merchant", "find_order", "insert_attempt"}
           /\ frames[q].req.order_id = order_id
    THEN 1
    ELSE FirstIndex(payment_attempts,
             LAMBDA a : a.order_id = order_id /\ a.status \in PendingStatuses)

\* The read of lines 1397-1400, 0 when no attempt matches.
PendingIndex(order_id) ==
    FirstIndex(payment_attempts,
        LAMBDA a : a.order_id = order_id /\ a.status \in PendingStatuses)

\* ---- check_pending_payment (lines 1363-1384): one read and the answer.
CheckPendingPayment(p, order_id) ==
    /\ Free(p)
    /\ LET i == PendingIndex(order_id)
       IN  frames' = [frames EXCEPT ![p] =
               [op |-> "check_pending_payment", pc |-> "done",
                req |-> [order_id |-> order_id],
                res |-> [status_code |-> 200,
                         has_pending |-> i # 0,
                         reference |-> IF i # 0
                                       THEN Some(payment_attempts[i].reference)
                                       ELSE None]]]
    /\ UNCHANGED <<now, next_uuid, orders, discount_codes, products,
                   email_logs, inventory_batches, inventory_entries,
                   payment_attempts, payment_transactions>>

\* ---- create_wompi_transaction (lines 1386-1531)

\* STEP 1, lines 1396-1406.
CreateTransactionBegin(p, req) ==
    /\ Free(p)
    /\ LET f == [op |-> "create_transaction", pc |-> "get_merchant",
                 req |-> req]
       IN  frames' = [frames EXCEPT ![p] =
               IF PendingIndex(req.order_id) # 0
               THEN HTTPException(f, 409, "Tu pago esta siendo procesado")
               ELSE f]
    /\ UNCHANGED <<now, next_uuid, orders, discount_codes, products,
                   email_logs, inventory_batches, inventory_entries,
                   payment_attempts, payment_transactions>>

\* STEPS 2-3 (lines 1408-1428; create-pse lines 1612-1631): the merchant
\* request answers 200 or not (any other failure is also turned into a 500,
\* lines 1529-1531), then the reference is drawn.
GetMerchant(p, op) ==
    /\ frames[p].op = op /\ frames[p].pc = "get_merchant"
    /\ \/ frames' = [frames EXCEPT ![p] =
              HTTPException(frames[p], 500, "Error al obtener configuracion")]
       \/ \E random_part \in RandomParts :
              frames' = [frames EXCEPT ![p] =
                  [op |-> op, pc |-> "find_order", req |-> frames[p].req,
                   unique_reference |-> UniqueReference(now, random_part)]]
    /\ UNCHANGED <<now, next_uuid, orders, discount_codes, products,
                   email_logs, inventory_batches, inventory_entries,
                   payment_attempts, payment_transactions>>

\* STEP 4 (lines 1430-1433; create-pse lines 1635-1638).
FindOrder(p, op) ==
    /\ frames[p].op = op /\ frames[p].pc = "find_order"
    /\ frames' = [frames EXCEPT ![p] =
           IF FirstIndex(orders, LAMBDA o : o.id = frames[p].req.order_id) = 0
           THEN HTTPException(frames[p], 404, "Orden no encontrada")
           ELSE [frames[p] EXCEPT !.pc = "insert_attempt"]]
    /\ UNCHANGED <<now, next_uuid, orders, discount_codes, products,
                   email_logs, inventory_batches, inventory_entries,
                   payment_attempts, payment_transactions>>

\* STEP 5 (lines 1435-1445; create-pse lines 1647-1658).
InsertAttempt(p, op, payment_method) ==
    /\ frames[p].op = op /\ frames[p].pc = "insert_attempt"
    /\ next_uuid' = next_uuid + 1
    /\ payment_attempts' = Append(payment_attempts,
           AttemptData(next_uuid + 1, frames[p].req,
                       frames[p].unique_reference, Some(payment_method)))
    /\ frames' = [frames EXCEPT ![p].pc = "post_transaction"]
    /\ UNCHANGED <<now, orders, discount_codes, products, email_logs,
                   inventory_batches, inventory_entries,
                   payment_transactions>>

\* The statuses the gateway reports for a transaction it accepted.
GatewayStatuses == {"PENDING", "APPROVED"}

\* STEP 6 (lines 1469-1491; create-pse lines 1687-1717): the gateway accepts
\* the transaction and reports a status, or rejects it, or the call raises
\* (timeout, unreadable body), which lines 1529-1531 turn into a 500 that
\* leaves the attempt as inserted.
PostTransaction(p, op) ==
    /\ frames[p].op = op /\ frames[p].pc = "post_transaction"
    /\ \/ \E wompi_status \in GatewayStatuses :
              frames' = [frames EXCEPT ![p] =
                  [op |-> op, pc |-> "update_attempt", req |-> frames[p].req,
                   unique_reference |-> frames[p].unique_reference,
                   wompi_status |-> wompi_status]]
       \/ frames' = [frames EXCEPT ![p].pc = "fail_attempt"]
       \/ frames' = [frames EXCEPT ![p] =
              HTTPException(frames[p], 500, "Error al procesar pago")]
    /\ UNCHANGED <<now, next_uuid, orders, discount_codes, products,
                   email_logs, inventory_batches, inventory_entries,
                   payment_attempts, payment_transactions>>

\* A variant of the update that attaches the error and leaves the status.
FailedFieldsKeepingStatus(a) == [a EXCEPT !.error = Some("tx_data")]

\* The $set of lines 1483-1484 (create-pse lines 1705-1706).
FailedFields(a) == [a EXCEPT !.status = "failed", !.error = Some("tx_data")]

\* Lines 1481-1491 (create-pse lines 1700-1717): the gateway said no.
FailAttempt(p, op) ==
    /\ frames[p].op = op /\ frames[p].pc = "fail_attempt"
    /\ payment_attempts' = UpdateOne(payment_attempts,
           LAMBDA a : a.reference = frames[p].unique_reference,
           LAMBDA a : FailedFields(a))
    /\ frames' = [frames EXCEPT ![p] =
           HTTPException(frames[p], 400, "Error al crear transaccion")]
    /\ UNCHANGED <<now, next_uuid, orders, discount_codes, products,
                   email_logs, inventory_batches, inventory_entries,
                   payment_transactions>>

\* A variant in which the answer carries no transaction id.
NoTxId(reference) == None

\* The id the gateway gives the transaction it created for a reference.
WompiTxId(reference) == Some(<<"tx", reference>>)

\* STEP 7 (lines 1493-1504; create-pse lines 1719-1731).
UpdateAttempt(p, op) ==
    /\ frames[p].op = op /\ frames[p].pc = "update_attempt"
    /\ payment_attempts' = UpdateOne(payment_attempts,
           LAMBDA a : a.reference = frames[p].unique_reference,
           LAMBDA a : [a EXCEPT
               !.wompi_transaction_id = WompiTxId(frames[p].unique_reference),
               !.status = frames[p].wompi_status])
    /\ frames' = [frames EXCEPT ![p].pc = "update_order"]
    /\ UNCHANGED <<now, next_uuid, orders, discount_codes, products,
                   email_logs, inventory_batches, inventory_entries,
                   payment_transactions>>

PaymentCreated(f) ==
    [op |-> f.op, pc |-> "done", req |-> f.req,
     unique_reference |-> f.unique_reference,
     res |-> [status_code |-> 200, detail |-> "success",
              reference |-> f.unique_reference, status |-> f.wompi_status]]

\* STEP 8 and the response (lines 1506-1525).
CreateTransactionUpdateOrder(p) ==
    /\ frames[p].op = "create_transaction" /\ frames[p].pc = "update_order"
    /\ orders' = UpdateOne(orders,
           LAMBDA o : o.id = frames[p].req.order_id,
           LAMBDA o : [o EXCEPT
               !.latest_payment_reference = Some(frames[p].unique_reference),
               !.payment_status = "pending"])
    /\ frames' = [frames EXCEPT ![p] = PaymentCreated(frames[p])]
    /\ UNCHANGED <<now, next_uuid, discount_codes, products, email_logs,
                   inventory_batches, inventory_entries, payment_attempts,
                   payment_transactions>>

CreateTransactionStep(p) ==
    \/ GetMerchant(p, "create_transaction")
    \/ FindOrder(p, "create_transaction")
    \/ InsertAttempt(p, "create_transaction", frames[p].req.payment_method)
    \/ PostTransaction(p, "create_transaction")
    \/ FailAttempt(p, "create_transaction")
    \/ UpdateAttempt(p, "create_transaction")
    \/ CreateTransactionUpdateOrder(p)

\* ---- create_wompi_pse_transaction (lines 1553-1758), WOMPI_PRIVATE_KEY set

\* STEP 1, lines 1579-1586: update_many.
CancelForRetry(attempts, order_id) ==
    [i \in 1..Len(attempts) |->
        IF attempts[i].order_id = order_id
           /\ attempts[i].status \in RetryStatuses
        THEN [attempts[i] EXCEPT !.status = "cancelled_for_retry"]
        ELSE attempts[i]]

CreatePseBegin(p, req) ==
    /\ Free(p)
    /\ payment_attempts' = CancelForRetry(payment_attempts, req.order_id)
    /\ frames' = [frames EXCEPT ![p] =
           [op |-> "create_pse", pc |-> "check_pending", req |-> req]]
    /\ UNCHANGED <<now, next_uuid, orders, discount_codes, products,
                   email_logs, inventory_batches, inventory_entries,
                   payment_transactions>>

\* STEP 2, lines 1588-1599 and 1604-1608: only a PENDING attempt is looked
\* for; a recent one blocks, an old one is to be expired.
CreatePseCheckPending(p) ==
    /\ frames[p].op = "create_pse" /\ frames[p].pc = "check_pending"
    /\ LET i == FirstIndex(payment_attempts,
                    LAMBDA a : /\ a.order_id = frames[p].req.order_id
                               /\ a.status \in {"PENDING"})
       IN  frames' = [frames EXCEPT ![p] =
               IF i = 0
               THEN [frames[p] EXCEPT !.pc = "get_merchant"]
               ELSE IF now - payment_attempts[i].created_at
                           > PENDING_TIMEOUT_MINUTES
               THEN [op |-> "create_pse", pc |-> "expire_pending",
                     req |-> frames[p].req,
                     pending_id |-> payment_attempts[i].id]
               ELSE HTTPException(frames[p], 409,
                       "Tu pago esta siendo procesado en el banco")]
    /\ UNCHANGED <<now, next_uuid, orders, discount_codes, products,
                   email_logs, inventory_batches, inventory_entries,
                   payment_attempts, payment_transactions>>

\* Lines 1600-1603.
CreatePseExpirePending(p) ==
    /\ frames[p].op = "create_pse" /\ frames[p].pc = "expire_pending"
    /\ payment_attempts' = UpdateOne(payment_attempts,
           LAMBDA a : a.id = frames[p].pending_id,
           LAMBDA a : [a EXCEPT !.status = "expired"])
    /\ frames' = [frames EXCEPT ![p] =
           [op |-> "create_pse", pc |-> "get_merchant", req |-> frames[p].req]]
    /\ UNCHANGED <<now, next_uuid, orders, discount_codes, products,
                   email_logs, inventory_batches, inventory_entries,
                   payment_transactions>>

\* STEP 9, second write, and the response (lines 1733-1752).
CreatePseUpdateOrder(p) ==
    /\ frames[p].op = "create_pse" /\ frames[p].pc = "update_order"
    /\ orders' = UpdateOne(orders,
           LAMBDA o : o.id = frames[p].req.order_id,
           LAMBDA o : [o EXCEPT
               !.latest_payment_reference = Some(frames[p].unique_reference),
               !.wompi_transaction_id =
                   WompiTxId(frames[p].unique_reference),
               !.payment_status = "pending"])
    /\ frames' = [frames EXCEPT ![p] = PaymentCreated(frames[p])]
    /\ UNCHANGED <<now, next_uuid, discount_codes, products, email_logs,
                   inventory_batches, inventory_entries, payment_attempts,
                   payment_transactions>>

CreatePseStep(p) ==
    \/ CreatePseCheckPending(p)
    \/ CreatePseExpirePending(p)
    \/ GetMerchant(p, "create_pse")
    \/ FindOrder(p, "create_pse")
    \/ InsertAttempt(p, "create_pse", "PSE")
    \/ PostTransaction(p, "create_pse")
    \/ FailAttempt(p, "create_pse")
    \/ UpdateAttempt(p, "create_pse")
    \/ CreatePseUpdateOrder(p)

\* ---- register_payment_attempt (lines 1859-1908)

\* A variant of the duplicate check that looks only at the attempts of the
\* same order.
ExistingReferenceOfOrder(req) ==
    FirstIndex(payment_attempts,
        LAMBDA a : a.reference = req.reference /\ a.order_id = req.order_id)

\* Line 1864: find_one({"reference": request.reference}), 0 when none.
ExistingReference(req) ==
    FirstIndex(payment_attempts, LAMBDA a : a.reference = req.reference)

\* Lines 1863-1869.
RegisterAttemptBegin(p, req) ==
    /\ Free(p)
    /\ LET f == [op |-> "register_attempt", pc |-> "insert_attempt",
                 req |-> req]
       IN  frames' = [frames EXCEPT ![p] =
               IF ExistingReference(req) # 0
               THEN HTTPException(f, 400,
                        "Esta referencia de pago ya fue utilizada. Por favor inicie un nuevo pago.")
               ELSE f]
    /\ UNCHANGED <<now, next_uuid, orders, discount_codes, products,
                   email_logs, inventory_batches, inventory_entries,
                   payment_attempts, payment_transactions>>

\* Lines 1871-1882.
RegisterAttemptInsert(p) ==
    /\ frames[p].op = "register_attempt" /\ frames[p].pc = "insert_attempt"
    /\ next_uuid' = next_uuid + 1
    /\ payment_attempts' = Append(payment_attempts,
           AttemptData(next_uuid + 1, frames[p].req,
                       frames[p].req.reference, None))
    /\ frames' = [frames EXCEPT ![p].pc = "update_order"]
    /\ UNCHANGED <<now, orders, discount_codes, products, email_logs,
                   inventory_batches, inventory_entries,
                   payment_transactions>>

\* A variant of the order update that leaves the payment status.
RegisteredFieldsReferenceOnly(o, reference) ==
    [o EXCEPT
        !.latest_payment_reference = Some(reference),
        !.payment_attempts = Append(@,
            [reference |-> reference, status |-> "initiated"])]

\* The $set and $push of lines 1887-1898.
RegisteredFields(o, reference) ==
    [o EXCEPT
        !.latest_payment_reference = Some(reference),
        !.payment_status = "pending",
        !.payment_attempts = Append(@,
            [reference |-> reference, status |-> "initiated"])]

\* Lines 1884-1902.
RegisterAttemptUpdateOrder(p) ==
    /\ frames[p].op = "register_attempt" /\ frames[p].pc = "update_order"
    /\ orders' = UpdateOne(orders,
           LAMBDA o : o.id = frames[p].req.order_id,
           LAMBDA o : RegisteredFields(o, frames[p].req.reference))
    /\ frames' = [frames EXCEPT ![p] =
           [op |-> "register_attempt", pc |-> "done", req |-> frames[p].req,
            res |-> [status_code |-> 200, detail |-> "success",
                     reference |-> frames[p].req.reference]]]
    /\ UNCHANGED <<now, next_uuid, discount_codes, products, email_logs,
                   inventory_batches, inventory_entries, payment_attempts,
                   payment_transactions>>

RegisterAttemptStep(p) ==
    \/ RegisterAttemptInsert(p)
    \/ RegisterAttemptUpdateOrder(p)

\* ---- get_card_widget_signature (lines 2049-2104), WOMPI_PRIVATE_KEY set

\* Lines 2057-2060.
CardWidgetBegin(p, req) ==
    /\ Free(p)
    /\ LET f == [op |-> "card_widget_signature", pc |-> "insert_attempt",
                 req |-> req]
       IN  frames' = [frames EXCEPT ![p] =
               IF FirstIndex(orders, LAMBDA o : o.id = req.order_id) = 0
               THEN HTTPException(f, 404, "Orden no encontrada")
               ELSE f]
    /\ UNCHANGED <<now, next_uuid, orders, discount_codes, products,
                   email_logs, inventory_batches, inventory_entries,
                   payment_attempts, payment_transactions>>

\* Lines 2073-2098.
CardWidgetInsert(p) ==
    /\ frames[p].op = "card_widget_signature"
    /\ frames[p].pc = "insert_attempt"
    /\ next_uuid' = next_uuid + 1
    /\ payment_attempts' = Append(payment_attempts,
           AttemptData(next_uuid + 1, frames[p].req,
                       frames[p].req.reference, Some("CARD_WIDGET")))
    /\ frames' = [frames EXCEPT ![p] =
           [op |-> "card_widget_signature", pc |-> "done",
            req |-> frames[p].req,
            res |-> [status_code |-> 200, detail |-> "success",
                     reference |-> frames[p].req.reference]]]
    /\ UNCHANGED <<now, orders, discount_codes, products, email_logs,
                   inventory_batches, inventory_entries,
                   payment_transactions>>

\* ---- mark_payment_completed (lines 1760-1774): one update, any status.
MarkPaymentCompleted(p, reference, status) ==
    /\ Free(p)
    /\ payment_attempts' = UpdateOne(payment_attempts,
           LAMBDA a : a.reference = reference,
           LAMBDA a : [a EXCEPT !.status = status,
                                !.completed_at = Some(now)])
    /\ frames' = [frames EXCEPT ![p] =
           [op |-> "mark_payment_completed", pc |-> "done",
            req |-> [reference |-> reference, status |-> status],
            res |-> [status_code |-> 200, detail |-> "success"]]]
    /\ UNCHANGED <<now, next_uuid, orders, discount_codes, products,
                   email_logs, inventory_batches, inventory_entries,
                   payment_transactions>>

\* ---- wompi_webhook (lines 1776-1837)

\* status_mapping.get(status, "pending"), lines 1792-1800.
AppStatus(status) ==
    CASE status = "APPROVED" -> "paid"
      [] status = "DECLINED" -> "failed"
      [] status = "ERROR" -> "failed"
      [] status = "VOIDED" -> "cancelled"
      [] status = "PENDING" -> "pending"
      [] OTHER -> "pending"

\* Lines 1803-1811: the update of db.payment_transactions.
WebhookTransactions(transactions, payload) ==
    UpdateOne(transactions,
        LAMBDA t : t.reference = Val(payload.reference),
        LAMBDA t : [t EXCEPT !.status = AppStatus(payload.status),
                             !.wompi_status = payload.status])

\* A variant of the order update that finds the order by its latest payment
\* reference and logs the event on it.
WebhookOrdersLogging(coll, payload) ==
    UpdateOne(coll,
        LAMBDA o : o.latest_payment_reference = payload.reference,
        LAMBDA o : [o EXCEPT !.payment_attempts =
                        Append(@, [reference |-> Val(payload.reference),
                                   status |-> AppStatus(payload.status)])])

\* A variant of the order update that finds the order by its latest payment
\* reference.
WebhookOrdersByLatest(coll, payload) ==
    IF AppStatus(payload.status) = "paid"
    THEN UpdateOne(coll,
             LAMBDA o : o.latest_payment_reference = payload.reference,
             LAMBDA o : [o EXCEPT !.payment_status = "paid",
                                  !.order_status = "confirmed"])
    ELSE IF AppStatus(payload.status) = "failed"
    THEN UpdateOne(coll,
             LAMBDA o : o.latest_payment_reference = payload.reference,
             LAMBDA o : [o EXCEPT !.payment_status = "failed"])
    ELSE coll

\* Lines 1813-1830: the update of db.orders; the order is looked up by its
\* payment_reference field.
WebhookOrders(coll, payload) ==
    IF AppStatus(payload.status) = "paid"
    THEN UpdateOne(coll,
             LAMBDA o : o.payment_reference = payload.reference,
             LAMBDA o : [o EXCEPT !.payment_status = "paid",
                                  !.order_status = "confirmed"])
    ELSE IF AppStatus(payload.status) = "failed"
    THEN UpdateOne(coll,
             LAMBDA o : o.payment_reference = payload.reference,
             LAMBDA o : [o EXCEPT !.payment_status = "failed"])
    ELSE coll

\* Lines 1780-1811: a payload without reference is refused; otherwise the
\* record of that reference in db.payment_transactions is updated.
WebhookBegin(p, payload) ==
    /\ Free(p)
    /\ IF payload.reference = None
       THEN /\ frames' = [frames EXCEPT ![p] =
                   [op |-> "webhook", pc |-> "done", req |-> payload,
                    res |-> [status_code |-> 200,
                             detail |-> "Missing reference"]]]
            /\ UNCHANGED payment_transactions
       ELSE /\ payment_transactions' =
                   WebhookTransactions(payment_transactions, payload)
            /\ frames' = [frames EXCEPT ![p] =
                   [op |-> "webhook", pc |-> "update_order",
                    req |-> payload]]
    /\ UNCHANGED <<now, next_uuid, orders, discount_codes, products,
                   email_logs, inventory_batches, inventory_entries,
                   payment_attempts>>

\* Lines 1813-1833: the order is looked up by its payment_reference field.
WebhookUpdateOrder(p) ==
    /\ frames[p].op = "webhook" /\ frames[p].pc = "update_order"
    /\ LET app_status == AppStatus(frames[p].req.status)
       IN  /\ orders' = WebhookOrders(orders, frames[p].req)
           /\ frames' = [frames EXCEPT ![p] =
                  [op |-> "webhook", pc |-> "done", req |-> frames[p].req,
                   res |-> [status_code |-> 200, detail |-> "success",
                            status |-> app_status]]]
    /\ UNCHANGED <<now, next_uuid, discount_codes, products, email_logs,
                   inventory_batches, inventory_entries, payment_attempts,
                   payment_transactions>>

\* ---- verify_payment_status (lines 1910-1950)

\* A variant that answers the status as stored.
StatusAsStored(status) == status

\* str.upper() on the statuses a payment attempt can hold; the gateway's
\* statuses are upper case already.
StatusUpper(status) ==
    CASE status = "initiated" -> "INITIATED"
      [] status = "pending" -> "PENDING"
      [] status = "paid" -> "PAID"
      [] status = "failed" -> "FAILED"
      [] status = "expired" -> "EXPIRED"
      [] status = "cancelled" -> "CANCELLED"
      [] status = "cancelled_for_retry" -> "CANCELLED_FOR_RETRY"
      [] OTHER -> status

\* status_map of lines 1934-1939 with its default.
LegacyStatus(status) ==
    CASE status = "paid" -> "APPROVED"
      [] status = "failed" -> "DECLINED"
      [] status = "cancelled" -> "CANCELLED"
      [] OTHER -> "PENDING"

\* Lines 1915-1925: the attempt of the reference, if any, answers.
VerifyPaymentBegin(p, reference) ==
    /\ Free(p)
    /\ LET i == FirstIndex(payment_attempts,
                    LAMBDA a : a.reference = reference)
           req == [reference |-> reference]
       IN  frames' = [frames EXCEPT ![p] =
               IF i # 0
               THEN [op |-> "verify_payment_status", pc |-> "done",
                     req |-> req,
                     res |-> [status_code |-> 200, detail |-> "attempt",
                              status |->
                                  StatusUpper(payment_attempts[i].status)]]
               ELSE [op |-> "verify_payment_status",
                     pc |-> "find_transaction", req |-> req]]
    /\ UNCHANGED <<now, next_uuid, orders, discount_codes, products,
                   email_logs, inventory_batches, inventory_entries,
                   payment_attempts, payment_transactions>>

\* Lines 1927-1946: the legacy record of the reference, or PENDING.
VerifyPaymentTransaction(p) ==
    /\ frames[p].op = "verify_payment_status"
    /\ frames[p].pc = "find_transaction"
    /\ LET i == FirstIndex(payment_transactions,
                    LAMBDA t : t.reference = frames[p].req.reference)
       IN  frames' = [frames EXCEPT ![p] =
               [op |-> "verify_payment_status", pc |-> "done",
                req |-> frames[p].req,
                res |-> [status_code |-> 200,
                         detail |-> IF i # 0 THEN "transaction" ELSE "none",
                         status |->
                             IF i # 0
                             THEN LegacyStatus(payment_transactions[i].status)
                             ELSE "PENDING"]]]
    /\ UNCHANGED <<now, next_uuid, orders, discount_codes, products,
                   email_logs, inventory_batches, inventory_entries,
                   payment_attempts, payment_transactions>>

\* ------------------------------------------------------------------ pickup token and status

ascii_lowercase ==
    <<"a", "b", "c", "d", "e", "f", "g", "h", "i", "j", "k", "l", "m",
      "n", "o", "p", "q", "r", "s", "t", "u", "v", "w", "x", "y", "z">>

\* str.upper(): a lowercase letter becomes its capital (the first 26 entries
\* of string_ascii_uppercase_digits), any other character stays.
upper_char(c) ==
    IF \E i \in 1..26 : ascii_lowercase[i] = c
    THEN string_ascii_uppercase_digits[
             CHOOSE i \in 1..26 : ascii_lowercase[i] = c]
    ELSE c

upper(str) == [i \in 1..Len(str) |-> upper_char(str[i])]

\* str.strip(): leading and trailing blanks go.
RECURSIVE lstrip(_)
lstrip(str) ==
    IF str # <<>> /\ Head(str) = " " THEN lstrip(Tail(str)) ELSE str

RECURSIVE rstrip(_)
rstrip(str) ==
    IF str # <<>> /\ str[Len(str)] = " "
    THEN rstrip(SubSeq(str, 1, Len(str) - 1))
    ELSE str

strip(str) == rstrip(lstrip(str))

\* A variant of the query that does not look at the order number.
TokenQueryTokenOnly(o, token, order_number) == o.pickup_token = Some(token)

\* Lines 734-736: the query of validate_pickup_token on a document.  An order
\* without token (None) matches no token string.
TokenQuery(o, token, order_number) ==
    /\ o.pickup_token = Some(token)
    /\ order_number # None => o.order_number = Val(order_number)

\* Lines 746-752.
OrderSummary(o) ==
    [status_code |-> 200, detail |-> "valid",
     order_number |-> o.order_number,
     customer_name |-> o.shipping_address.full_name,
     total_amount |-> o.total_amount,
     items_count |-> SumOver(o.items, "quantity")]

\* The response of validate_pickup_token (lines 728-752) to the body `data`.
\* Order numbers are generated in capitals (line 304), which upper() keeps.
ValidateResponse(data) ==
    LET token == upper(strip(data.token))
        i == FirstIndex(orders,
                 LAMBDA o : TokenQuery(o, token, data.order_number))
    IN  IF token = <<>>
        THEN [status_code |-> 400, detail |-> "Token requerido"]
        ELSE IF i = 0
        THEN [status_code |-> 404, detail |-> "Token invalido o no encontrado"]
        ELSE IF orders[i].pickup_token_used
        THEN [status_code |-> 400, detail |-> "Este token ya fue utilizado"]
        ELSE OrderSummary(orders[i])

\* A variant of the validation that marks the token it found as used.
ValidatePickupTokenConsuming(p, data) ==
    /\ Free(p)
    /\ frames' = [frames EXCEPT ![p] =
           [op |-> "validate_pickup_token", pc |-> "done", req |-> data,
            res |-> ValidateResponse(data)]]
    /\ orders' =
           IF ValidateResponse(data).status_code = 200
           THEN UpdateOne(orders,
                    LAMBDA o : TokenQuery(o, upper(strip(data.token)),
                                          data.order_number),
                    LAMBDA o : [o EXCEPT !.pickup_token_used = TRUE])
           ELSE orders
    /\ UNCHANGED <<now, next_uuid, discount_codes, products, email_logs,
                   inventory_batches, inventory_entries, payment_attempts,
                   payment_transactions>>

\* validate_pickup_token (lines 725-752): one read, no write.
ValidatePickupToken(p, data) ==
    /\ Free(p)
    /\ frames' = [frames EXCEPT ![p] =
           [op |-> "validate_pickup_token", pc |-> "done", req |-> data,
            res |-> ValidateResponse(data)]]
    /\ UNCHANGED <<now, next_uuid, orders, discount_codes, products,
                   email_logs, inventory_batches, inventory_entries,
                   payment_attempts, payment_transactions>>

\* A variant of the checks of use_pickup_token that does not look at the flag.
UsePickupTokenRejectionNoFlag(order_id) ==
    LET i == FirstIndex(orders, LAMBDA o : o.id = order_id)
    IN  IF i = 0 THEN <<404, "Order not found">>
        ELSE IF orders[i].payment_method # "cash_on_delivery"
        THEN <<400, "Esta orden no es contra entrega">>
        ELSE <<>>

\* Lines 760-768: the status and detail use_pickup_token raises for an order
\* id, <<>> when it raises nothing.
UsePickupTokenRejection(order_id) ==
    LET i == FirstIndex(orders, LAMBDA o : o.id = order_id)
    IN  IF i = 0 THEN <<404, "Order not found">>
        ELSE IF orders[i].payment_method # "cash_on_delivery"
        THEN <<400, "Esta orden no es contra entrega">>
        ELSE IF orders[i].pickup_token_used
        THEN <<400, "El token ya fue utilizado">>
        ELSE <<>>

\* use_pickup_token called by an admin, lines 760-768: the read and the checks.
UsePickupTokenBegin(p, order_id) ==
    /\ Free(p)
    /\ LET f == [op |-> "use_pickup_token", pc |-> "update_order",
                 req |-> [order_id |-> order_id]]
           why == UsePickupTokenRejection(order_id)
       IN  frames' = [frames EXCEPT ![p] =
               IF why # <<>> THEN HTTPException(f, why[1], why[2]) ELSE f]
    /\ UNCHANGED <<now, next_uuid, orders, discount_codes, products,
                   email_logs, inventory_batches, inventory_entries,
                   payment_attempts, payment_transactions>>

\* A variant of the write of use_pickup_token that leaves the payment status.
TokenUsedFieldsFlagOnly(o) ==
    [o EXCEPT !.pickup_token_used = TRUE, !.order_status = "delivered"]

\* The $set of use_pickup_token (lines 773-778).
TokenUsedFields(o) ==
    [o EXCEPT !.pickup_token_used = TRUE,
              !.payment_status = "paid",
              !.order_status = "delivered"]

\* Lines 770-782: the write and the response.
UsePickupTokenUpdate(p) ==
    /\ frames[p].op = "use_pickup_token" /\ frames[p].pc = "update_order"
    /\ orders' = UpdateOne(orders,
           LAMBDA o : o.id = frames[p].req.order_id,
           LAMBDA o : TokenUsedFields(o))
    /\ frames' = [frames EXCEPT ![p] =
           [op |-> "use_pickup_token", pc |-> "done", req |-> frames[p].req,
            res |-> [status_code |-> 200,
                     detail |-> "Token validado y pedido entregado"]]]
    /\ UNCHANGED <<now, next_uuid, discount_codes, products, email_logs,
                   inventory_batches, inventory_entries, payment_attempts,
                   payment_transactions>>

\* Variants of update_fields: one that takes the pickup flag back when an
\* order is set to pending, one that sets no order status for "confirmed".
UpdateFieldsResettingFlag(o, status) ==
    IF status = "pending"
    THEN [o EXCEPT !.payment_status = status, !.pickup_token_used = FALSE]
    ELSE IF status = "delivered"
    THEN [o EXCEPT !.order_status = "delivered", !.payment_status = "paid"]
    ELSE [o EXCEPT !.order_status = status]

UpdateFieldsPaymentOnly(o, status) ==
    IF status \in {"pending", "paid", "failed", "confirmed"}
    THEN IF status = "paid"
         THEN [o EXCEPT !.payment_status = status,
                        !.order_status = "confirmed"]
         ELSE [o EXCEPT !.payment_status = status]
    ELSE IF status = "delivered"
    THEN [o EXCEPT !.order_status = "delivered", !.payment_status = "paid"]
    ELSE IF status = "cancelled"
    THEN [o EXCEPT !.order_status = "cancelled",
                   !.payment_status = "cancelled"]
    ELSE [o EXCEPT !.order_status = status]

\* A variant that also writes off the total of an order it cancels.
UpdateFieldsVoidingTotal(o, status) ==
    IF status \in {"pending", "paid", "failed", "confirmed"}
    THEN IF status = "paid"
         THEN [o EXCEPT !.payment_status = status,
                        !.order_status = "confirmed"]
         ELSE IF status = "confirmed"
         THEN [o EXCEPT !.payment_status = status,
                        !.order_status = "processing"]
         ELSE [o EXCEPT !.payment_status = status]
    ELSE IF status = "delivered"
    THEN [o EXCEPT !.order_status = "delivered", !.payment_status = "paid"]
    ELSE IF status = "cancelled"
    THEN [o EXCEPT !.order_status = "cancelled",
                   !.payment_status = "cancelled",
                   !.total_amount = 0]
    ELSE [o EXCEPT !.order_status = status]

\* update_fields of update_order_status (lines 794-812) applied to an order.
UpdateFields(o, status) ==
    IF status \in {"pending", "paid", "failed", "confirmed"}
    THEN IF status = "paid"
         THEN [o EXCEPT !.payment_status = status,
                        !.order_status = "confirmed"]
         ELSE IF status = "confirmed"
         THEN [o EXCEPT !.payment_status = status,
                        !.order_status = "processing"]
         ELSE [o EXCEPT !.payment_status = status]
    ELSE IF status = "delivered"
    THEN [o EXCEPT !.order_status = "delivered", !.payment_status = "paid"]
    ELSE IF status = "cancelled"
    THEN [o EXCEPT !.order_status = "cancelled",
                   !.payment_status = "cancelled"]
    ELSE [o EXCEPT !.order_status = status]

\* update_order_status called by an admin (lines 784-820).  updated_at is
\* always written with the current instant, so modified_count is 0 exactly
\* when no order has the id.
UpdateOrderStatus(p, order_id, status) ==
    /\ Free(p)
    /\ orders' = UpdateOne(orders, LAMBDA o : o.id = order_id,
                           LAMBDA o : UpdateFields(o, status))
    /\ LET f == [op |-> "update_order_status", pc |-> "done",
                 req |-> [order_id |-> order_id, status |-> status]]
       IN  frames' = [frames EXCEPT ![p] =
               IF FirstIndex(orders, LAMBDA o : o.id = order_id) = 0
               THEN HTTPException(f, 404, "Order not found")
               ELSE [op |-> f.op, pc |-> "done", req |-> f.req,
                     res |-> [status_code |-> 200,
                              detail |-> "Order status updated",
                              status |-> status]]]
    /\ UNCHANGED <<now, next_uuid, discount_codes, products, email_logs,
                   inventory_batches, inventory_entries, payment_attempts,
                   payment_transactions>>

\* ------------------------------------------------------------------ inventory batches

\* Prices are whole pesos.  round(x, 2) of the quotient num / den, den > 0,
\* in hundredths: the nearest hundredth, a tie going to the even one.
Round2(num, den) ==
    LET scaled == 100 * num
        q == scaled \div den
        r == scaled % den
    IN  IF 2 * r > den \/ (2 * r = den /\ q % 2 = 1) THEN q + 1 ELSE q

\* Lines 917 and 1043 with the round of lines 931 and 1048: the margin in
\* hundredths of a percent.
ProfitMarginPercent(projected_profit, total_investment) ==
    IF total_investment > 0
    THEN Round2(projected_profit * 100, total_investment)
    ELSE 0

\* Lines 914-917 / 1040-1048: the four derived fields.
Profitability(quantity, entry_price, selling_price) ==
    LET total_investment == quantity * entry_price
        projected_revenue == quantity * selling_price
        projected_profit == projected_revenue - total_investment
    IN  [total_investment |-> total_investment,
         projected_revenue |-> projected_revenue,
         projected_profit |-> projected_profit,
         profit_margin_percent |->
             ProfitMarginPercent(projected_profit, total_investment)]

\* create_batch_entry (lines 907-948).
CreateBatchEntry(p, batch) ==
    /\ Free(p)
    /\ next_uuid' = next_uuid + 1
    /\ LET m == Profitability(batch.quantity, batch.entry_price,
                              batch.selling_price)
       IN  /\ inventory_batches' = Append(inventory_batches,
                  [id |-> next_uuid + 1,
                   quantity |-> batch.quantity,
                   entry_price |-> batch.entry_price,
                   selling_price |-> batch.selling_price,
                   total_investment |-> m.total_investment,
                   projected_revenue |-> m.projected_revenue,
                   projected_profit |-> m.projected_profit,
                   profit_margin_percent |-> m.profit_margin_percent,
                   status |-> "active"])
           /\ frames' = [frames EXCEPT ![p] =
                  [op |-> "create_batch_entry", pc |-> "done", req |-> batch,
                   res |-> [status_code |-> 200,
                            detail |-> "Batch entry created",
                            id |-> next_uuid + 1,
                            profit_margin_percent |->
                                m.profit_margin_percent]]]
    /\ UNCHANGED <<now, orders, discount_codes, products, email_logs,
                   inventory_entries, payment_attempts, payment_transactions>>

\* update_data.get(key, batch.get(key, 0)) of lines 1036-1038; a key the
\* body does not carry is None.
Supplied(update_data, batch, key) ==
    IF update_data[key] # None THEN Val(update_data[key]) ELSE batch[key]

\* A variant of the update in which a derived field sent by the caller wins
\* over the computed one.
BatchSetKeepingSupplied(stored, batch, update_data) ==
    LET m == Profitability(Supplied(update_data, batch, "quantity"),
                           Supplied(update_data, batch, "entry_price"),
                           Supplied(update_data, batch, "selling_price"))
    IN  [stored EXCEPT
            !.quantity = Supplied(update_data, stored, "quantity"),
            !.entry_price = Supplied(update_data, stored, "entry_price"),
            !.selling_price = Supplied(update_data, stored, "selling_price"),
            !.status = Supplied(update_data, stored, "status"),
            !.total_investment =
                IF update_data.total_investment # None
                THEN Val(update_data.total_investment)
                ELSE m.total_investment,
            !.projected_revenue = m.projected_revenue,
            !.projected_profit = m.projected_profit,
            !.profit_margin_percent = m.profit_margin_percent]

\* Lines 1036-1050: the $set applied to the stored document.  The derived
\* fields are computed from the document read at line 1031 and overwrite
\* whatever the body carried for them.
BatchSet(stored, batch, update_data) ==
    LET m == Profitability(Supplied(update_data, batch, "quantity"),
                           Supplied(update_data, batch, "entry_price"),
                           Supplied(update_data, batch, "selling_price"))
    IN  [stored EXCEPT
            !.quantity = Supplied(update_data, stored, "quantity"),
            !.entry_price = Supplied(update_data, stored, "entry_price"),
            !.selling_price = Supplied(update_data, stored, "selling_price"),
            !.status = Supplied(update_data, stored, "status"),
            !.total_investment = m.total_investment,
            !.projected_revenue = m.projected_revenue,
            !.projected_profit = m.projected_profit,
            !.profit_margin_percent = m.profit_margin_percent]

\* Lines 1031-1033.
UpdateBatchFind(p, batch_id, update_data) ==
    /\ Free(p)
    /\ LET f == [op |-> "update_batch_entry", pc |-> "update_one",
                 req |-> [batch_id |-> batch_id,
                          update_data |-> update_data]]
           i == FirstIndex(inventory_batches, LAMBDA b : b.id = batch_id)
       IN  frames' = [frames EXCEPT ![p] =
               IF i = 0
               THEN HTTPException(f, 404, "Batch not found")
               ELSE [op |-> f.op, pc |-> f.pc, req |-> f.req,
                     batch |-> inventory_batches[i]]]
    /\ UNCHANGED <<now, next_uuid, orders, discount_codes, products,
                   email_logs, inventory_batches, inventory_entries,
                   payment_attempts, payment_transactions>>

\* Lines 1036-1060.
UpdateBatchWrite(p) ==
    /\ frames[p].op = "update_batch_entry" /\ frames[p].pc = "update_one"
    /\ inventory_batches' = UpdateOne(inventory_batches,
           LAMBDA b : b.id = frames[p].req.batch_id,
           LAMBDA b : BatchSet(b, frames[p].batch,
                               frames[p].req.update_data))
    /\ frames' = [frames EXCEPT ![p] =
           [op |-> "update_batch_entry", pc |-> "done",
            req |-> frames[p].req,
            res |-> [status_code |-> 200, detail |-> "Batch updated"]]]
    /\ UNCHANGED <<now, next_uuid, orders, discount_codes, products,
                   email_logs, inventory_entries, payment_attempts,
                   payment_transactions>>

\* ------------------------------------------------------------------ stock, products, order deletion

\* add_inventory_entry, lines 877-882: the role check and the insert of the
\* entry.
AddInventoryEntryInsert(p, role, entry) ==
    /\ Free(p)
    /\ LET f == [op |-> "add_inventory_entry", pc |-> "update_product",
                 req |-> entry]
       IN  IF role # "admin"
           THEN /\ frames' = [frames EXCEPT ![p] =
                       HTTPException(f, 403, "Admin access required")]
                /\ UNCHANGED inventory_entries
           ELSE /\ frames' = [frames EXCEPT ![p] = f]
                /\ inventory_entries' = Append(inventory_entries,
                       [product_code |-> entry.product_code,
                        version_type |-> entry.version_type,
                        size |-> entry.size,
                        quantity |-> entry.quantity,
                        entry_price |-> entry.entry_price,
                        entry_date |-> now])
    /\ UNCHANGED <<now, next_uuid, orders, discount_codes, products,
                   email_logs, inventory_batches, payment_attempts,
                   payment_transactions>>

\* Lines 884-890: $inc of the stock count on the product whose code matches;
\* a code that matches no product updates nothing.
AddInventoryEntryUpdate(p) ==
    /\ frames[p].op = "add_inventory_entry"
    /\ frames[p].pc = "update_product"
    /\ LET entry == frames[p].req
           sku == <<entry.version_type, entry.size>>
       IN  products' =
               IF entry.product_code \in DOMAIN products
               THEN [products EXCEPT ![entry.product_code][sku] =
                        @ + entry.quantity]
               ELSE products
    /\ frames' = [frames EXCEPT ![p] =
           [op |-> "add_inventory_entry", pc |-> "done", req |-> frames[p].req,
            res |-> [status_code |-> 200, detail |-> "Inventory entry added"]]]
    /\ UNCHANGED <<now, next_uuid, orders, discount_codes, email_logs,
                   inventory_batches, inventory_entries, payment_attempts,
                   payment_transactions>>

\* The orders without the first one whose id is order_id (delete_one).
DeleteOne(coll, order_id) ==
    LET i == FirstIndex(coll, LAMBDA o : o.id = order_id)
    IN  IF i = 0 THEN coll
        ELSE SubSeq(coll, 1, i - 1) \o SubSeq(coll, i + 1, Len(coll))

\* A variant of delete_order that puts the units of the deleted order back
\* in stock.
DeleteOrderRestocking(p, role, order_id) ==
    /\ Free(p)
    /\ LET f == [op |-> "delete_order", pc |-> "done",
                 req |-> [order_id |-> order_id]]
           i == FirstIndex(orders, LAMBDA o : o.id = order_id)
       IN  IF role # "admin"
           THEN /\ frames' = [frames EXCEPT ![p] =
                       HTTPException(f, 403, "Admin access required")]
                /\ UNCHANGED <<orders, products>>
           ELSE IF i = 0
           THEN /\ frames' = [frames EXCEPT ![p] =
                       HTTPException(f, 404, "Order not found")]
                /\ UNCHANGED <<orders, products>>
           ELSE /\ orders' = DeleteOne(orders, order_id)
                /\ products' = [products EXCEPT
                       ![orders[i].items[1].product_code]
                        [<<orders[i].items[1].version_type,
                           orders[i].items[1].size>>] =
                           @ + SumOver(orders[i].items, "quantity")]
                /\ frames' = [frames EXCEPT ![p] =
                       [op |-> "delete_order", pc |-> "done", req |-> f.req,
                        res |-> [status_code |-> 200,
                                 detail |-> "Order deleted successfully"]]]
    /\ UNCHANGED <<now, next_uuid, discount_codes, email_logs,
                   inventory_batches, inventory_entries, payment_attempts,
                   payment_transactions>>

\* delete_order (lines 822-830).
DeleteOrder(p, role, order_id) ==
    /\ Free(p)
    /\ LET f == [op |-> "delete_order", pc |-> "done",
                 req |-> [order_id |-> order_id]]
       IN  IF role # "admin"
           THEN /\ frames' = [frames EXCEPT ![p] =
                       HTTPException(f, 403, "Admin access required")]
                /\ UNCHANGED orders
           ELSE IF FirstIndex(orders, LAMBDA o : o.id = order_id) = 0
           THEN /\ frames' = [frames EXCEPT ![p] =
                       HTTPException(f, 404, "Order not found")]
                /\ UNCHANGED orders
           ELSE /\ orders' = DeleteOne(orders, order_id)
                /\ frames' = [frames EXCEPT ![p] =
                       [op |-> "delete_order", pc |-> "done", req |-> f.req,
                        res |-> [status_code |-> 200,
                                 detail |-> "Order deleted successfully"]]]
    /\ UNCHANGED <<now, next_uuid, discount_codes, products, email_logs,
                   inventory_batches, inventory_entries, payment_attempts,
                   payment_transactions>>

\* update_product (lines 551-560): $set of whatever fields the body carries
\* on the product of that id (the products of the model are named by their
\* code).  Of a product only the stock is kept here: a body with a stock
\* field replaces the stock, a body with other fields leaves it.  The answer
\* is 404 when modified_count is 0: no such product, or nothing to change.
UpdateProduct(p, role, product_id, product_data) ==
    /\ Free(p)
    /\ LET f == [op |-> "update_product", pc |-> "done",
                 req |-> [product_id |-> product_id, data |-> product_data]]
           ok == [op |-> "update_product", pc |-> "done", req |-> f.req,
                  res |-> [status_code |-> 200, detail |-> "Product updated"]]
           none == HTTPException(f, 404, "Product not found")
       IN  IF role # "admin"
           THEN /\ frames' = [frames EXCEPT ![p] =
                       HTTPException(f, 403, "Admin access required")]
                /\ UNCHANGED products
           ELSE IF product_id \notin DOMAIN products
           THEN /\ frames' = [frames EXCEPT ![p] = none]
                /\ UNCHANGED products
           ELSE IF product_data.stock = None
           THEN /\ \/ frames' = [frames EXCEPT ![p] = ok]
                   \/ frames' = [frames EXCEPT ![p] = none]
                /\ UNCHANGED products
           ELSE /\ products' = [products EXCEPT ![product_id] =
                                   Val(product_data.stock)]
                /\ frames' = [frames EXCEPT ![p] =
                       IF products[product_id] = Val(product_data.stock)
                       THEN none ELSE ok]
    /\ UNCHANGED <<now, next_uuid, orders, discount_codes, email_logs,
                   inventory_batches, inventory_entries, payment_attempts,
                   payment_transactions>>

\* ------------------------------------------------------------------ inputs

Ana == [full_name |-> <<"A", "n", "a">>, phone |-> <<"3", "0", "0">>,
        address |-> <<"K", "1">>, email |-> "ana@x.co"]
Luz == [full_name |-> <<"L", "u", "z">>, phone |-> <<"3", "0", "0">>,
        address |-> <<"K", "1">>, email |-> "luz@x.co"]

Item(quantity, total_price) ==
    [product_code |-> "RUN-0001", version_type |-> "hombre_fan", size |-> "M",
     quantity |-> quantity, unit_price |-> 85000, total_price |-> total_price]

FiveUnits == <<Item(5, 425000)>>
SixUnits == <<Item(3, 255000), Item(3, 255000)>>

OrderCreate(customer_type, items, shipping_address, payment_method, discount_code, shipping_cost, subtotal, total_amount) ==
    [customer_type |-> customer_type, items |-> items,
     shipping_address |-> shipping_address, payment_method |-> payment_method,
     discount_code |-> discount_code, shipping_cost |-> shipping_cost,
     subtotal |-> subtotal, total_amount |-> total_amount]

DiscountCode(discount_type, discount_value, code_type, max_uses, valid_until, active) ==
    [code |-> "PROMO", discount_type |-> discount_type,
     discount_value |-> discount_value, code_type |-> code_type,
     max_uses |-> max_uses, current_uses |-> 0, used_by |-> <<>>,
     valid_until |-> valid_until, active |-> active]

\* Spec: one checkout at a time, over every shape of request.  A caller that
\* sends its own figures sends all three (shipping_cost, subtotal,
\* total_amount).
SeqRequests ==
    {OrderCreate(ct, items, Ana, pm, dc, own[1], own[2], own[2]) :
        ct \in {"retail", "wholesale"}, items \in {FiveUnits, SixUnits},
        pm \in {"cash_on_delivery", "pse"}, dc \in {None, Some("PROMO")},
        own \in {<<None, None>>, <<Some(0), Some(1)>>}}

SeqCodes ==
    {DiscountCode(dt[1], dt[2], "normal", mu, None, TRUE) :
        dt \in {<<"percentage", 10>>, <<"fixed", 600000>>},
        mu \in {None, Some(0)}}

\* SpecConc: checkouts in flight together, all redeeming the code PROMO.
ConcRequests ==
    {OrderCreate("retail", FiveUnits, who, "pse", Some("PROMO"), None, None,
                 None) : who \in {Ana, Luz}}

ConcCodes ==
    {DiscountCode("percentage", 10, ct, mu, None, TRUE) :
        ct \in {"normal", "authorized"}, mu \in {None, Some(1)}}
    \cup {DiscountCode("percentage", 10, "normal", None, None, FALSE)}

\* ------------------------------------------------------------------ specifications

Init ==
    /\ now = 0
    /\ next_uuid = 0
    /\ orders = <<>>
    /\ discount_codes = <<>>
    /\ products = [c \in {"RUN-0001"} |->
                      [sku \in {<<"hombre_fan", "M">>} |-> 0]]
    /\ email_logs = <<>>
    /\ inventory_batches = <<>>
    /\ inventory_entries = <<>>
    /\ payment_attempts = <<>>
    /\ payment_transactions = <<>>
    /\ frames = [p \in Procs |-> IdleFrame]

\* Checkouts accepted so far: orders inserted or about to be.
Started ==
    Len(orders)
        + Cardinality({p \in Procs : /\ frames[p].op = "create_order"
                                     /\ frames[p].pc \in {"send_email",
                                                          "insert_order"}})

CreateOrderStep(p) ==
    \/ CreateOrderSendEmail(p)
    \/ CreateOrderInsert(p)
    \/ CreateOrderUpdateDiscount(p)
    \/ CreateOrderUpdateStock(p)

Next ==
    \/ \E req \in SeqRequests :
          Started < MaxOrders /\ CreateOrderBegin(1, req)
    \/ CreateOrderStep(1)
    \/ \E code \in SeqCodes :
          /\ Len(discount_codes) < MaxCodes
          /\ \A q \in Procs : ~Running(q)
          /\ CreateDiscountCode(code)

Spec == Init /\ [][Next]_vars

NextConc ==
    \/ \E p \in Procs, req \in ConcRequests :
          Started < MaxConcOrders /\ CreateOrderBegin(p, req)
    \/ \E p \in Procs : \/ CreateOrderInsert(p)
                         \/ CreateOrderUpdateDiscount(p)
                         \/ CreateOrderUpdateStock(p)
    \/ \E code \in ConcCodes :
          Len(discount_codes) < MaxConcCodes /\ CreateDiscountCode(code)

SpecConc == Init /\ [][NextConc]_vars

\* ---- payments: one order, then the payment endpoints one request at a time

PayOrder == OrderCreate("retail", FiveUnits, Ana, "pse", None, None, None, None)

\* The order ids a client may send: those of the orders, and one of no order.
OrderIds == {orders[i].id : i \in 1..Len(orders)} \cup {0}

\* WompiPaymentRequest and WompiPSERequest.
WompiPaymentRequest(order_id) ==
    [order_id |-> order_id, amount_in_cents |-> 44000000,
     payment_method |-> "CARD"]

\* The references the frontend makes up for register-attempt and the widget.
ClientReferences == {UniqueReference(0, "C0FFEE01"), UniqueReference(0, "C0FFEE02")}

\* PaymentAttemptRequest and CardWidgetSignatureRequest.
PaymentAttemptRequest(order_id, reference) ==
    [order_id |-> order_id, amount_in_cents |-> 44000000,
     reference |-> reference]

KnownReferences == {payment_attempts[i].reference : i \in 1..Len(payment_attempts)}

\* Attempts inserted so far or about to be.
AttemptsStarted ==
    Len(payment_attempts)
        + Cardinality({p \in Procs :
              /\ frames[p].op \in {"create_transaction", "create_pse",
                                   "register_attempt", "card_widget_signature"}
              /\ frames[p].pc \in {"get_merchant", "check_pending",
                                   "expire_pending", "find_order",
                                   "insert_attempt"}})

NextPay ==
    \/ Started < MaxPayOrders /\ CreateOrderBegin(1, PayOrder)
    \/ CreateOrderInsert(1)
    \/ CreateOrderUpdateStock(1)
    \/ \E order_id \in OrderIds :
          /\ AttemptsStarted < MaxAttempts
          /\ \/ CreateTransactionBegin(1, WompiPaymentRequest(order_id))
             \/ CreatePseBegin(1, WompiPaymentRequest(order_id))
             \/ \E reference \in ClientReferences \cup KnownReferences :
                    RegisterAttemptBegin(1,
                        PaymentAttemptRequest(order_id, reference))
             \/ \E reference \in ClientReferences :
                    CardWidgetBegin(1,
                        PaymentAttemptRequest(order_id, reference))
    \/ CreateTransactionStep(1)
    \/ CreatePseStep(1)
    \/ RegisterAttemptStep(1)
    \/ CardWidgetInsert(1)
    \/ \E reference \in KnownReferences :
          \/ \E status \in {"APPROVED", "pending"} :
                 MarkPaymentCompleted(1, reference, status)
          \/ \E status \in {"APPROVED", "DECLINED", "VOIDED"} :
                 WebhookBegin(1, [reference |-> Some(reference),
                                  status |-> status])
    \/ WebhookBegin(1, [reference |-> None, status |-> "APPROVED"])
    \/ WebhookUpdateOrder(1)
    \/ \E order_id \in OrderIds \ {0} : UpdateOrderStatus(1, order_id, "paid")
    \/ Tick

SpecPay == Init /\ [][NextPay]_vars

\* ---- pickup tokens and status updates: orders paid on delivery or by PSE,
\* then validate, use-pickup-token, status and payment requests, one at a
\* time

CodOrder ==
    OrderCreate("retail", FiveUnits, Ana, "cash_on_delivery", None, None, None, None)

\* A token as a customer may type it: in small letters, after a blank.
AsTyped(token) ==
    <<" ">> \o [i \in 1..Len(token) |->
                  IF \E k \in 1..26 : string_ascii_uppercase_digits[k] = token[i]
                  THEN ascii_lowercase[CHOOSE k \in 1..26 :
                           string_ascii_uppercase_digits[k] = token[i]]
                  ELSE token[i]]

IssuedTokens ==
    {Val(orders[i].pickup_token) :
        i \in {k \in 1..Len(orders) : orders[k].pickup_token # None}}

\* The bodies sent to validate-pickup-token: the tokens issued, as issued or
\* as typed, a token of no order and none at all; with or without the number
\* of an order or of none.
ValidateBodies ==
    {[token |-> t, order_number |-> n] :
        t \in IssuedTokens \cup {AsTyped(u) : u \in IssuedTokens}
                 \cup {<<"C", "O", "D", "-", "I", "N", "V", "A", "L", "I", "D", "0">>, <<" ">>},
        n \in {None, Some(<<"ORD", 0>>)}
                 \cup {Some(orders[i].order_number) : i \in 1..Len(orders)}}

RequestedStatuses ==
    {"pending", "paid", "confirmed", "failed", "delivered", "cancelled",
     "shipped"}

NextCod ==
    \/ \E req \in {CodOrder, PayOrder} :
          Started < MaxCodOrders /\ CreateOrderBegin(1, req)
    \/ CreateOrderSendEmail(1)
    \/ CreateOrderInsert(1)
    \/ CreateOrderUpdateStock(1)
    \/ \E data \in ValidateBodies : ValidatePickupToken(1, data)
    \/ \E order_id \in OrderIds : UsePickupTokenBegin(1, order_id)
    \/ UsePickupTokenUpdate(1)
    \/ \E order_id \in OrderIds, status \in RequestedStatuses :
          UpdateOrderStatus(1, order_id, status)
    \/ \E order_id \in OrderIds \ {0} :
          /\ AttemptsStarted < MaxCodAttempts
          /\ \/ CreateTransactionBegin(1, WompiPaymentRequest(order_id))
             \/ CreatePseBegin(1, WompiPaymentRequest(order_id))
             \/ \E reference \in ClientReferences :
                    RegisterAttemptBegin(1,
                        PaymentAttemptRequest(order_id, reference))
    \/ CreateTransactionStep(1)
    \/ CreatePseCheckPending(1)
    \/ GetMerchant(1, "create_pse")
    \/ FindOrder(1, "create_pse")
    \/ InsertAttempt(1, "create_pse", "PSE")
    \/ PostTransaction(1, "create_pse")
    \/ FailAttempt(1, "create_pse")
    \/ UpdateAttempt(1, "create_pse")
    \/ CreatePseUpdateOrder(1)
    \/ RegisterAttemptStep(1)
    \/ \E reference \in KnownReferences :
          WebhookBegin(1, [reference |-> Some(reference),
                           status |-> "APPROVED"])
    \/ WebhookUpdateOrder(1)
    \/ \E reference \in ClientReferences \cup KnownReferences :
          VerifyPaymentBegin(1, reference)
    \/ VerifyPaymentTransaction(1)

SpecCod == Init /\ [][NextCod]_vars

\* SpecDisc: one discount code of any shape (limited or not, dated or not,
\* active or not, for one use per customer or not), checkouts paid by PSE or
\* on delivery, validations of codes and of pickup tokens, one request at a
\* time, time passing.
DiscRequests ==
    {OrderCreate("retail", FiveUnits, Ana, pm, Some(code), None, None,
                 None) : pm \in {"pse", "cash_on_delivery"},
                         code \in {"PROMO", "NOPE"}}

DiscCodes ==
    {DiscountCode("percentage", 10, ct, mu, vu, active) :
        ct \in {"authorized", "normal"},
        mu \in {None, Some(0), Some(1)}, vu \in {None, Some(8)},
        active \in BOOLEAN}

NextDisc ==
    \/ \E req \in DiscRequests :
          Started < MaxDiscOrders /\ CreateOrderBegin(1, req)
    \/ CreateOrderSendEmail(1)
    \/ CreateOrderInsert(1)
    \/ CreateOrderUpdateDiscount(1)
    \/ CreateOrderUpdateStock(1)
    \/ \E code \in {"PROMO", "NOPE"} :
          ValidateDiscountCode(1, [code |-> code])
    \/ \E data \in ValidateBodies : ValidatePickupToken(1, data)
    \/ \E code \in DiscCodes :
          /\ Len(discount_codes) < MaxCodes
          /\ \A q \in Procs : ~Running(q)
          /\ CreateDiscountCode(code)
    \/ Tick

SpecDisc == Init /\ [][NextDisc]_vars

\* SpecBatch: batches created and edited by one admin, one request at a
\* time; an edit carries any subset of quantity, entry_price, selling_price,
\* status and total_investment.
BatchEntryCreate(quantity, entry_price, selling_price) ==
    [quantity |-> quantity, entry_price |-> entry_price,
     selling_price |-> selling_price]

BatchBodies ==
    {BatchEntryCreate(q, e, s) : q \in {-1, 0, 3}, e \in {0, 3}, s \in {5}}

BatchUpdates ==
    {[quantity |-> q, entry_price |-> e, selling_price |-> s,
      status |-> st, total_investment |-> ti] :
        q \in {None, Some(0), Some(7)}, e \in {None, Some(0), Some(3)},
        s \in {None, Some(4)}, st \in {None, Some("sold")},
        ti \in {None, Some(1)}}

BatchIds == 0..MaxBatches

NextBatch ==
    \/ \E batch \in BatchBodies :
          Len(inventory_batches) < MaxBatches /\ CreateBatchEntry(1, batch)
    \/ \E batch_id \in BatchIds, update_data \in BatchUpdates :
          UpdateBatchFind(1, batch_id, update_data)
    \/ UpdateBatchWrite(1)

SpecBatch == Init /\ [][NextBatch]_vars

\* SpecRace: one order, then create-transaction and create-pse calls for it
\* served by two handlers whose steps interleave.
NextRace ==
    \/ /\ Started < MaxPayOrders
       /\ \A q \in Procs : ~Running(q)
       /\ CreateOrderBegin(1, PayOrder)
    \/ CreateOrderInsert(1)
    \/ CreateOrderUpdateStock(1)
    \/ \E p \in Procs, order_id \in OrderIds \ {0} :
          /\ AttemptsStarted < MaxRaceAttempts
          /\ \/ CreateTransactionBegin(p, WompiPaymentRequest(order_id))
             \/ CreatePseBegin(p, WompiPaymentRequest(order_id))
    \/ \E p \in Procs : CreateTransactionStep(p) \/ CreatePseStep(p)
    \/ Tick

SpecRace == Init /\ [][NextRace]_vars

\* SpecGuard: one order, then check-pending, create-transaction and
\* create-pse calls for it or for an order that does not exist, one request
\* at a time; the clock moves between requests.
NextGuard ==
    \/ Started < MaxPayOrders /\ CreateOrderBegin(1, PayOrder)
    \/ CreateOrderInsert(1)
    \/ CreateOrderUpdateStock(1)
    \/ \E order_id \in OrderIds :
          /\ AttemptsStarted < MaxGuardAttempts
          /\ \/ CreateTransactionBegin(1, WompiPaymentRequest(order_id))
             \/ CreatePseBegin(1, WompiPaymentRequest(order_id))
    \/ CreateTransactionStep(1)
    \/ CreatePseStep(1)
    \/ \E order_id \in OrderIds : CheckPendingPayment(1, order_id)
    \/ \E reference \in KnownReferences :
          MarkPaymentCompleted(1, reference, "pending")
    \/ (\A q \in Procs : ~Running(q)) /\ Tick

SpecGuard == Init /\ [][NextGuard]_vars

\* SpecNotify: checkouts of every shape, one at a time, whose notification
\* is stored or fails.  Every accepted checkout draws one uuid.
NextNotify ==
    \/ \E req \in SeqRequests :
          next_uuid < MaxNotifyOrders /\ CreateOrderBegin(1, req)
    \/ CreateOrderSendEmail(1)
    \/ CreateOrderSendEmailFails(1)
    \/ CreateOrderInsert(1)
    \/ CreateOrderUpdateDiscount(1)
    \/ CreateOrderUpdateStock(1)
    \/ \E code \in SeqCodes :
          /\ Len(discount_codes) < MaxCodes
          /\ \A q \in Procs : ~Running(q)
          /\ CreateDiscountCode(code)

SpecNotify == Init /\ [][NextNotify]_vars

\* SpecStock: checkouts, inventory entries, product edits, cancellations and
\* order deletions served by two handlers whose steps interleave.  Every accepted
\* checkout draws one uuid.
StockRequests ==
    {OrderCreate("retail", items, Ana, "pse", None, None, None, None) :
        items \in {FiveUnits, SixUnits}}

InventoryEntry(product_code, quantity) ==
    [product_code |-> product_code, version_type |-> "hombre_fan",
     size |-> "M", quantity |-> quantity, entry_price |-> 30000]

InventoryEntries ==
    {InventoryEntry(code, 4) : code \in {"RUN-0001", "RUN-0009"}}

Roles == {"admin", "mayorista"}

ProductBodies ==
    {[stock |-> None, is_featured |-> Some(TRUE)],
     [stock |-> Some([sku \in {<<"hombre_fan", "M">>} |-> 7]),
      is_featured |-> None]}

NextStock ==
    \/ \E p \in Procs, req \in StockRequests :
          next_uuid < MaxStockOrders /\ CreateOrderBegin(p, req)
    \/ \E p \in Procs : CreateOrderInsert(p) \/ CreateOrderUpdateStock(p)
    \/ \E p \in Procs, role \in Roles, entry \in InventoryEntries :
          /\ Len(inventory_entries) < MaxStockEntries
          /\ AddInventoryEntryInsert(p, role, entry)
    \/ \E p \in Procs : AddInventoryEntryUpdate(p)
    \/ \E p \in Procs, role \in Roles, order_id \in OrderIds :
          DeleteOrder(p, role, order_id)
    \/ \E p \in Procs, role \in Roles, product_data \in ProductBodies :
          UpdateProduct(p, role, "RUN-0001", product_data)
    \/ \E p \in Procs, order_id \in OrderIds \ {0} :
          UpdateOrderStatus(p, order_id, "cancelled")

SpecStock == Init /\ [][NextStock]_vars

\* SpecRedeem: checkouts with the code PROMO, with a code that does not
\* exist and without code, served by two handlers whose steps interleave;
\* the admin creates codes named PROMO, some with uses already counted.
\* Every accepted checkout draws one uuid.
RedeemRequests ==
    {OrderCreate("retail", FiveUnits, who, "pse", dc, None, None, None) :
        who \in {Ana, Luz}, dc \in {None, Some("PROMO"), Some("NOPE")}}

RedeemCodes ==
    {[DiscountCode("percentage", 10, ct, mu, None, TRUE)
         EXCEPT !.current_uses = cu] :
        ct \in {"normal", "authorized"}, mu \in {None, Some(2)},
        cu \in {0, 1}}

NextRedeem ==
    \/ \E p \in Procs, req \in RedeemRequests :
          next_uuid < MaxRedeemOrders /\ CreateOrderBegin(p, req)
    \/ \E p \in Procs : \/ CreateOrderInsert(p)
                         \/ CreateOrderUpdateDiscount(p)
                         \/ CreateOrderUpdateStock(p)
    \/ \E code \in RedeemCodes :
          Len(discount_codes) < MaxRedeemCodes /\ CreateDiscountCode(code)

SpecRedeem == Init /\ [][NextRedeem]_vars

\* ================================================================ properties

\* A create_order handler whose order has been inserted, and that order.
Inserted(p) ==
    /\ frames[p].op = "create_order"
    /\ \/ frames[p].pc \in {"update_discount", "update_stock"}
       \/ frames[p].pc = "done" /\ frames[p].res.status_code = 200

PersistedBy(p) ==
    orders[FirstIndex(orders, LAMBDA o : o.id = frames[p].order_dict.id)]

\* ---- C3 (violated by the code).  For every discount code with max_uses = N,
\* under any interleaving of concurrent create_order requests carrying the
\* code, current_uses never exceeds N, and (when the code has one document)
\* at most N orders carry the discount.
C3_UsesWithinCapConcurrently ==
    /\ \A i \in 1..Len(discount_codes) :
           discount_codes[i].max_uses # None
               => discount_codes[i].current_uses
                      <= Val(discount_codes[i].max_uses)
    /\ (Len(discount_codes) = 1 /\ discount_codes[1].max_uses # None)
           => Cardinality({k \in 1..Len(orders) :
                  orders[k].discount_code = Some(discount_codes[1].code)})
                  <= Val(discount_codes[1].max_uses)

\* ---- C4 (violated by the code).  With checkouts run one after another,
\* every discount code whose max_uses is set (any integer >= 0) keeps
\* current_uses <= max_uses.
C4_UsesWithinCapSequentially ==
    \A i \in 1..Len(discount_codes) :
        discount_codes[i].max_uses # None
            => discount_codes[i].current_uses <= Val(discount_codes[i].max_uses)

\* ---- C5 (violated by the code).  A create_order that starts after an order
\* with the same code and the same customer fingerprint was created is
\* rejected with "already used" when the code is of class normal (and no
\* earlier check of the code rejects it first), and is not rejected for that
\* reason when the code is of class authorized.
AlreadyUsedDetail == "You have already used this discount code"

Fingerprint(addr) == <<addr.full_name, addr.phone, addr.address>>

\* An order with this code and fingerprint exists and its handler is done.
RedeemedBefore(req) ==
    \E k \in 1..Len(orders) :
        /\ orders[k].discount_code = req.discount_code
        /\ Fingerprint(orders[k].shipping_address)
               = Fingerprint(req.shipping_address)
        /\ \A q \in Procs :
               (Running(q) /\ frames[q].op = "create_order")
                   => frames[q].order_dict.id # orders[k].id

\* The class of the code a request redeems: that of the active document
\* found, "" when none is found or it is expired or exhausted.
RedeemableClass(req) ==
    LET i == FirstIndex(discount_codes,
                 LAMBDA d : d.code = Val(req.discount_code) /\ d.active)
    IN  IF i = 0 THEN ""
        ELSE IF discount_codes[i].valid_until # None
                /\ Val(discount_codes[i].valid_until) < now THEN ""
        ELSE IF discount_codes[i].max_uses # None
                /\ Val(discount_codes[i].max_uses) > 0
                /\ discount_codes[i].current_uses
                       >= Val(discount_codes[i].max_uses) THEN ""
        ELSE discount_codes[i].code_type

C5_RepeatRedemption ==
    [][\A p \in Procs :
          (/\ Free(p)
           /\ frames'[p] # frames[p]
           /\ frames'[p].op = "create_order"
           /\ frames'[p].req.discount_code # None
           /\ RedeemedBefore(frames'[p].req))
          => /\ RedeemableClass(frames'[p].req) = "normal"
                  => /\ frames'[p].pc = "done"
                     /\ frames'[p].res.status_code = 400
                     /\ frames'[p].res.detail = AlreadyUsedDetail
             /\ RedeemableClass(frames'[p].req) = "authorized"
                  => ~(/\ frames'[p].pc = "done"
                       /\ frames'[p].res.detail = AlreadyUsedDetail)]_vars

\* ---- C6.  Every persisted order has subtotal = the sum of its line items'
\* total_price and total_amount = subtotal - discount_amount + shipping_cost,
\* whatever subtotal or total_amount the caller sent.
C6_TotalIsDerived ==
    \A k \in 1..Len(orders) :
        /\ orders[k].subtotal
               = SumOver(orders[k].items, "total_price")
        /\ orders[k].total_amount
               = orders[k].subtotal - orders[k].discount_amount
                     + orders[k].shipping_cost

\* An order with a discount was persisted for a caller who sent other figures.
C6_Witness ==
    /\ Inserted(1)
    /\ frames[1].req.total_amount # None
    /\ frames[1].req.subtotal # None
    /\ PersistedBy(1).discount_amount > 0
    /\ PersistedBy(1).total_amount # Val(frames[1].req.total_amount)
    /\ PersistedBy(1).subtotal # Val(frames[1].req.subtotal)

\* ---- C7 (violated by the code).  Every persisted order has
\* total_amount >= 0.
C7_TotalNonNegative ==
    \A k \in 1..Len(orders) : orders[k].total_amount >= 0

\* ---- C8.  The persisted shipping_cost is cost(customer_class, total_units,
\* explicit_cost): the explicit cost when the caller sends one; otherwise 15000
\* for wholesale; otherwise, for retail, 0 from six units on and 15000 below.
ReferenceCost(customer_class, total_units, explicit_cost) ==
    CASE explicit_cost # None -> Val(explicit_cost)
      [] explicit_cost = None /\ customer_class = "wholesale" -> 15000
      [] explicit_cost = None /\ customer_class # "wholesale"
             /\ total_units >= 6 -> 0
      [] explicit_cost = None /\ customer_class # "wholesale"
             /\ total_units < 6 -> 15000

RECURSIVE Units(_)
Units(items) ==
    IF items = <<>> THEN 0 ELSE Head(items).quantity + Units(Tail(items))

UpperAlphanumeric ==
    {"A", "B", "C", "D", "E", "F", "G", "H", "I", "J", "K", "L", "M", "N",
     "O", "P", "Q", "R", "S", "T", "U", "V", "W", "X", "Y", "Z"}
        \cup {"0", "1", "2", "3", "4", "5", "6", "7", "8", "9"}

IsPickupToken(t) ==
    /\ Len(t) = 12
    /\ SubSeq(t, 1, 4) = <<"C", "O", "D", "-">>
    /\ \A i \in 5..12 : t[i] \in UpperAlphanumeric

C10_TokenIffCashOnDelivery ==
    \A p \in Procs :
        Inserted(p)
            => /\ IF frames[p].req.payment_method = "cash_on_delivery"
                  THEN /\ PersistedBy(p).pickup_token # None
                       /\ IsPickupToken(Val(PersistedBy(p).pickup_token))
                       /\ PersistedBy(p).pickup_token_used = FALSE
                  ELSE PersistedBy(p).pickup_token = None
               /\ frames[p].pc = "done"
                      => frames[p].res.pickup_token
                             = PersistedBy(p).pickup_token

\* A cash-on-delivery order was answered with its token.
C10_Witness ==
    /\ Inserted(1)
    /\ frames[1].pc = "done"
    /\ frames[1].req.payment_method = "cash_on_delivery"
    /\ frames[1].res.pickup_token # None
    /\ Len(Val(frames[1].res.pickup_token)) = 12

\* ---- C1 (violated by the code).  Whatever payment operations have run,
\* each order has at most one payment attempt whose status is initiated,
\* pending or PENDING.
NonTerminal == {"initiated", "pending", "PENDING"}

NonTerminalAttempts(order_id) ==
    {i \in 1..Len(payment_attempts) :
        /\ payment_attempts[i].order_id = order_id
        /\ payment_attempts[i].status \in NonTerminal}

C1_OneNonTerminalAttemptPerOrder ==
    \A k \in 1..Len(orders) :
        Cardinality(NonTerminalAttempts(orders[k].id)) <= 1

\* ---- C2 (violated by the code).  A create-transaction or create-pse call
\* for an order that has a non-terminal attempt (not older than the
\* fifteen-minute timeout) changes no attempt and is rejected at its guard
\* with 409; a call for an order without non-terminal attempt is let through
\* by the guard.
BlocksNewAttempt(a) ==
    a.status \in NonTerminal /\ now - a.created_at <= 15

HasBlockingAttempt(order_id) ==
    \E i \in 1..Len(payment_attempts) :
        /\ payment_attempts[i].order_id = order_id
        /\ BlocksNewAttempt(payment_attempts[i])

HasNonTerminalAttempt(order_id) == NonTerminalAttempts(order_id) # {}

Conflict(f) == f.pc = "done" /\ f.res.status_code = 409

OrderExists(order_id) == \E k \in 1..Len(orders) : orders[k].id = order_id

\* The steps of handler p for an order that exists: the first of a call to
\* `op`, and the guard of create-pse, which is its second.
FirstStepOf(p, op) ==
    /\ Free(p) /\ frames'[p] # frames[p] /\ frames'[p].op = op
    /\ OrderExists(frames'[p].req.order_id)

PseGuardStep(p) ==
    /\ frames[p].op = "create_pse" /\ frames[p].pc = "check_pending"
    /\ frames'[p] # frames[p]
    /\ OrderExists(frames[p].req.order_id)

C2_GuardOfCreateAttempt ==
    [][\A p \in Procs :
          /\ FirstStepOf(p, "create_transaction")
                => IF HasBlockingAttempt(frames'[p].req.order_id)
                   THEN /\ Conflict(frames'[p])
                        /\ payment_attempts' = payment_attempts
                   ELSE HasNonTerminalAttempt(frames'[p].req.order_id)
                            \/ ~Conflict(frames'[p])
          /\ (/\ FirstStepOf(p, "create_pse")
              /\ HasBlockingAttempt(frames'[p].req.order_id))
                => payment_attempts' = payment_attempts
          /\ PseGuardStep(p)
                => IF HasBlockingAttempt(frames[p].req.order_id)
                   THEN /\ Conflict(frames'[p])
                        /\ payment_attempts' = payment_attempts
                   ELSE HasNonTerminalAttempt(frames[p].req.order_id)
                            \/ ~Conflict(frames'[p])]_vars

\* ---- C11.  Once an order's pickup token has been used (one use-pickup-token
\* succeeded), no operation takes the flag back, and every use-pickup-token
\* for that order that starts afterwards is refused as already used and
\* leaves the orders as they are.
ConsumeStarts(p) ==
    /\ Free(p) /\ frames'[p] # frames[p]
    /\ frames'[p].op = "use_pickup_token"

IsUsed(order_id) ==
    \E k \in 1..Len(orders) :
        orders[k].id = order_id /\ orders[k].pickup_token_used

TokenAlreadyUsed(f) ==
    /\ f.pc = "done"
    /\ f.res.status_code = 400
    /\ f.res.detail = "El token ya fue utilizado"

C11_SecondConsumeRefused ==
    [][/\ \A k \in 1..Len(orders) :
              orders[k].pickup_token_used
                  => /\ Len(orders') >= k
                     /\ orders'[k].id = orders[k].id
                     /\ orders'[k].pickup_token_used
       /\ \A p \in Procs :
              (ConsumeStarts(p) /\ IsUsed(frames'[p].req.order_id))
                  => TokenAlreadyUsed(frames'[p]) /\ orders' = orders]_vars

\* A second use-pickup-token was refused for an order whose status an admin
\* had changed after the delivery.
C11_Witness ==
    /\ frames[1].op = "use_pickup_token"
    /\ TokenAlreadyUsed(frames[1])
    /\ \E k \in 1..Len(orders) :
           /\ orders[k].id = frames[1].req.order_id
           /\ orders[k].pickup_token_used
           /\ orders[k].order_status = "cancelled"

\* ---- C12 as stated (violated): validate answers NotFound exactly when no
\* order carries the token sent (and the order number, when one is sent).
CarriesAsSent(o, data) ==
    /\ o.pickup_token = Some(data.token)
    /\ data.order_number # None => o.order_number = Val(data.order_number)

Validated(p) ==
    frames[p].op = "validate_pickup_token" /\ frames[p].pc = "done"

Carries(o, token, order_number) ==
    /\ o.pickup_token # None
    /\ Val(o.pickup_token) = token
    /\ order_number = None \/ o.order_number = Val(order_number)

RECURSIVE ItemCount(_)
ItemCount(items) ==
    IF items = <<>> THEN 0
    ELSE Head(items).quantity + ItemCount(Tail(items))

ConsumeSucceeds(p) ==
    /\ frames[p].op = "use_pickup_token" /\ frames[p].pc # "done"
    /\ frames'[p].pc = "done" /\ frames'[p].res.status_code = 200

C13_ConsumeOutcome ==
    [][\A p \in Procs :
          /\ ConsumeStarts(p)
                => \A k \in 1..Len(orders) :
                       (/\ orders[k].id = frames'[p].req.order_id
                        /\ \/ orders[k].pickup_token = None
                           \/ orders[k].pickup_token_used)
                          => /\ frames'[p].pc = "done"
                             /\ frames'[p].res.status_code = 400
                             /\ orders' = orders
          /\ (frames'[p].op = "use_pickup_token" /\ frames'[p].pc = "done"
              /\ frames'[p] # frames[p] /\ frames'[p].res.status_code = 200)
                => ConsumeSucceeds(p)
          /\ ConsumeSucceeds(p)
                => \A k \in 1..Len(orders') :
                       orders'[k].id = frames[p].req.order_id
                          => /\ orders'[k].pickup_token_used = TRUE
                             /\ orders'[k].payment_status = "paid"
                             /\ orders'[k].order_status = "delivered"]_vars

\* A use-pickup-token succeeded on an order that was not marked paid before.
C13_Witness ==
    /\ frames[1].op = "use_pickup_token"
    /\ frames[1].pc = "done"
    /\ frames[1].res.status_code = 200
    /\ \E k \in 1..Len(orders) :
           /\ orders[k].id = frames[1].req.order_id
           /\ orders[k].pickup_token_used
           /\ orders[k].payment_status = "paid"
           /\ orders[k].latest_payment_reference # None

\* ---- C14.  Whatever operation runs after an order was created
\* (use-pickup-token, status update, payment attempts, webhook, validate),
\* the order keeps its pickup_token, and pickup_token_used never goes from
\* true back to false.
C14_TokenStable ==
    [][\A k \in 1..Len(orders) :
          /\ Len(orders') >= k
          /\ orders'[k].id = orders[k].id
          /\ orders'[k].pickup_token = orders[k].pickup_token
          /\ orders[k].pickup_token_used => orders'[k].pickup_token_used]_vars

\* A delivered order was later set back to pending by an admin and has a
\* payment attempt registered: the token is there and still used.
C14_Witness ==
    \E k \in 1..Len(orders) :
        /\ orders[k].pickup_token # None
        /\ orders[k].pickup_token_used
        /\ orders[k].payment_status = "pending"
        /\ orders[k].latest_payment_reference # None
        /\ orders[k].order_status = "delivered"

\* ---- register_payment_attempt and the uniqueness of references

RegisterStarts(p) ==
    Free(p) /\ frames'[p] # frames[p] /\ frames'[p].op = "register_attempt"

ReferenceKnown(reference) ==
    \E i \in 1..Len(payment_attempts) :
        payment_attempts[i].reference = reference

DuplicateReference(f) ==
    /\ f.pc = "done" /\ f.res.status_code = 400
    /\ f.res.detail =
           "Esta referencia de pago ya fue utilizada. Por favor inicie un nuevo pago."

\* C15: a register_payment_attempt call whose reference is already carried by
\* a payment attempt, of whatever order and written by whatever entry point,
\* ends at once with the duplicate-reference error and changes neither the
\* payment attempts nor the orders.
C15_DuplicateReferenceRejected ==
    [][\A p \in Procs :
          (RegisterStarts(p) /\ ReferenceKnown(frames'[p].req.reference)) =>
              /\ DuplicateReference(frames'[p])
              /\ payment_attempts' = payment_attempts
              /\ orders' = orders]_vars

\* A refused registration whose reference was written for another order by
\* another entry point.
C15_Witness ==
    \E p \in Procs :
        /\ frames[p].op = "register_attempt"
        /\ DuplicateReference(frames[p])
        /\ \E i \in 1..Len(payment_attempts) :
               /\ payment_attempts[i].reference = frames[p].req.reference
               /\ payment_attempts[i].order_id # frames[p].req.order_id
               /\ payment_attempts[i].payment_method # None

\* C16: no two payment attempts carry the same reference.
C16_ReferencesUnique ==
    \A i, j \in 1..Len(payment_attempts) :
        payment_attempts[i].reference = payment_attempts[j].reference => i = j

RegisterInserts(p) ==
    /\ frames[p].op = "register_attempt" /\ frames[p].pc = "insert_attempt"
    /\ frames'[p] # frames[p]

RegisterUpdatesOrder(p) ==
    /\ frames[p].op = "register_attempt" /\ frames[p].pc = "update_order"
    /\ frames'[p] # frames[p]

\* C17: a register_payment_attempt call whose reference no attempt carries is
\* never refused, whatever attempts the order already has: it appends one
\* attempt in status initiated for the order and the reference, leaves the
\* other attempts alone, and ends in success with the order's
\* latest_payment_reference set to the reference and its payment_status
\* pending, the orders other than the request's being untouched.
C17_NewReferenceAccepted ==
    [][\A p \in Procs :
          /\ (RegisterStarts(p) /\ ~ReferenceKnown(frames'[p].req.reference))
                 => Running(p)'
          /\ RegisterInserts(p) =>
                 /\ Len(payment_attempts') = Len(payment_attempts) + 1
                 /\ SubSeq(payment_attempts', 1, Len(payment_attempts))
                        = payment_attempts
                 /\ LET a == payment_attempts'[Len(payment_attempts')]
                    IN  /\ a.status = "initiated"
                        /\ a.reference = frames[p].req.reference
                        /\ a.order_id = frames[p].req.order_id
                 /\ Running(p)'
          /\ RegisterUpdatesOrder(p) =>
                 /\ frames'[p].pc = "done"
                 /\ frames'[p].res.status_code = 200
                 /\ Len(orders') = Len(orders)
                 /\ \A k \in 1..Len(orders) :
                        IF orders[k].id = frames[p].req.order_id
                        THEN /\ orders'[k].latest_payment_reference
                                    = Some(frames[p].req.reference)
                             /\ orders'[k].payment_status = "pending"
                        ELSE orders'[k] = orders[k]]_vars

\* A successful registration for an order that was already paid and had
\* another attempt.
C17_Witness ==
    \E p \in Procs :
        /\ frames[p].op = "register_attempt" /\ frames[p].pc = "done"
        /\ frames[p].res.status_code = 200
        /\ \E k \in 1..Len(orders) :
               /\ orders[k].id = frames[p].req.order_id
               /\ orders[k].latest_payment_reference
                      = Some(frames[p].req.reference)
               /\ orders[k].payment_status = "pending"
               /\ orders[k].order_status = "confirmed"
        /\ \E i \in 1..Len(payment_attempts) :
               /\ payment_attempts[i].order_id = frames[p].req.order_id
               /\ payment_attempts[i].reference # frames[p].req.reference

\* ---- wompi_webhook

WebhookStep(p) ==
    /\ frames'[p] # frames[p]
    /\ frames'[p].op = "webhook"

WebhookEnds(p) ==
    /\ WebhookStep(p)
    /\ frames'[p].pc = "done"
    /\ frames'[p].req.reference # None

AcceptedAttempt(i, k) ==
    /\ payment_attempts[i].wompi_transaction_id # None
    /\ orders[k].id = payment_attempts[i].order_id
    /\ orders[k].latest_payment_reference
           = Some(payment_attempts[i].reference)

\* C19: once a webhook call for the reference of an accepted attempt has
\* ended, the attempt has the status the event maps to, and the order it was
\* made for is paid and confirmed after APPROVED, failed after DECLINED or
\* ERROR.
C19_WebhookReconciles ==
    \A p \in Procs :
        (/\ frames[p].op = "webhook" /\ frames[p].pc = "done"
         /\ frames[p].req.reference # None) =>
            \A i \in 1..Len(payment_attempts), k \in 1..Len(orders) :
                (/\ AcceptedAttempt(i, k)
                 /\ payment_attempts[i].reference
                        = Val(frames[p].req.reference)) =>
                    /\ payment_attempts[i].status
                           = AppStatus(frames[p].req.status)
                    /\ AppStatus(frames[p].req.status) = "paid" =>
                           /\ orders[k].payment_status = "paid"
                           /\ orders[k].order_status = "confirmed"
                    /\ AppStatus(frames[p].req.status) = "failed" =>
                           orders[k].payment_status = "failed"

\* ---- update_order_status

\* The payment status and the order status the table gives for a requested
\* status and an order.
TablePaymentStatus(status, o) ==
    CASE status = "pending" -> "pending"
      [] status = "paid" -> "paid"
      [] status = "confirmed" -> "confirmed"
      [] status = "failed" -> "failed"
      [] status = "delivered" -> "paid"
      [] status = "cancelled" -> "cancelled"
      [] OTHER -> o.payment_status

TableOrderStatus(status, o) ==
    CASE status = "pending" -> o.order_status
      [] status = "paid" -> "confirmed"
      [] status = "confirmed" -> "processing"
      [] status = "failed" -> o.order_status
      [] status = "delivered" -> "delivered"
      [] status = "cancelled" -> "cancelled"
      [] OTHER -> status

UpdateStatusStep(p) ==
    /\ Free(p) /\ frames'[p] # frames[p]
    /\ frames'[p].op = "update_order_status"

\* C20: update_order_status sets payment_status and order_status of the order
\* with the requested id as the table says (pending and failed leave the
\* order status, a value outside the table becomes the order status and
\* leaves the payment status), changes no other field and no other order,
\* and for an id no order has answers 404 and changes nothing.
C20_StatusTable ==
    [][\A p \in Procs :
          UpdateStatusStep(p) =>
              LET req == frames'[p].req
              IN  IF OrderExists(req.order_id)
                  THEN /\ frames'[p].res.status_code = 200
                       /\ Len(orders') = Len(orders)
                       /\ \A k \in 1..Len(orders) :
                              orders'[k] =
                                  IF orders[k].id = req.order_id
                                  THEN [orders[k] EXCEPT
                                           !.payment_status =
                                               TablePaymentStatus(req.status,
                                                                  orders[k]),
                                           !.order_status =
                                               TableOrderStatus(req.status,
                                                                orders[k])]
                                  ELSE orders[k]
                  ELSE /\ frames'[p].res.status_code = 404
                       /\ orders' = orders]_vars

\* An order set to confirmed: payment confirmed, order processing.
C20_Witness ==
    \E p \in Procs :
        /\ frames[p].op = "update_order_status" /\ frames[p].pc = "done"
        /\ frames[p].res.status_code = 200
        /\ frames[p].req.status = "confirmed"
        /\ \E k \in 1..Len(orders) :
               /\ orders[k].id = frames[p].req.order_id
               /\ orders[k].payment_status = "confirmed"
               /\ orders[k].order_status = "processing"

\* ---- discount validation

\* The outcome the priority order gives for a code name: a limit is any
\* max_uses that is set.
ClaimedOutcome(code) ==
    LET i == FirstIndex(discount_codes,
                 LAMBDA d : d.code = code /\ d.active)
    IN  IF i = 0 THEN "NotFound"
        ELSE IF /\ discount_codes[i].valid_until # None
                /\ Val(discount_codes[i].valid_until) < now
        THEN "Expired"
        ELSE IF /\ discount_codes[i].max_uses # None
                /\ discount_codes[i].current_uses
                       >= Val(discount_codes[i].max_uses)
        THEN "Exhausted"
        ELSE "Accepted"

\* What a finished validation or a starting checkout answered.
DiscountOutcome(f) ==
    IF f.pc # "done" THEN "Accepted"
    ELSE IF f.res.status_code = 200 THEN "Accepted"
    ELSE IF f.res.detail \in {"Código de descuento inválido",
                              "Invalid discount code"}
    THEN "NotFound"
    ELSE IF f.res.detail \in {"Código de descuento expirado",
                              "Discount code expired"}
    THEN "Expired"
    ELSE IF f.res.detail \in {"Código de descuento agotado",
                              "Discount code limit reached"}
    THEN "Exhausted"
    ELSE "Other"

ValidateDiscountStep(p) ==
    /\ Free(p) /\ frames'[p] # frames[p]
    /\ frames'[p].op = "validate_discount_code"

CheckoutWithCodeStarts(p) ==
    /\ Free(p) /\ frames'[p] # frames[p]
    /\ frames'[p].op = "create_order"
    /\ TruthyStr(frames'[p].req.discount_code)

\* C21 (violated by the code).  The validate endpoint and the checks of
\* create_order answer NotFound for a missing or inactive code, else Expired
\* for a code whose valid_until is before now, else Exhausted for a code
\* whose max_uses is set (any integer >= 0) and reached, else accept.
C21_RejectionPriority ==
    [][\A p \in Procs :
          /\ ValidateDiscountStep(p) =>
                 DiscountOutcome(frames'[p])
                     = ClaimedOutcome(frames'[p].req.code)
          /\ CheckoutWithCodeStarts(p)
                 /\ DiscountOutcome(frames'[p]) # "Other" =>
                 DiscountOutcome(frames'[p])
                     = ClaimedOutcome(Val(frames'[p].req.discount_code))
      ]_vars

\* ---- batch profitability

\* The four equations on a stored batch, the margin rounded to two decimals
\* and 0 when `zero_margin` holds of the investment.
DerivedFieldsHold(b, zero_margin) ==
    /\ b.total_investment = b.quantity * b.entry_price
    /\ b.projected_revenue = b.quantity * b.selling_price
    /\ b.projected_profit = b.projected_revenue - b.total_investment
    /\ b.profit_margin_percent =
           IF zero_margin
           THEN 0
           ELSE IF b.total_investment > 0
           THEN Round2(b.projected_profit * 100, b.total_investment)
           ELSE -Round2(b.projected_profit * 100, -b.total_investment)

\* C22 as stated: every stored batch satisfies the four equations, the
\* margin being 0 when the investment is 0.
C22_DerivedFieldsZeroAtZero ==
    \A i \in 1..Len(inventory_batches) :
        DerivedFieldsHold(inventory_batches[i],
                          inventory_batches[i].total_investment = 0)

\* C22 (amended): every stored batch satisfies the four equations, the
\* margin being 0 when the investment is not positive.
C22_DerivedFields ==
    \A i \in 1..Len(inventory_batches) :
        DerivedFieldsHold(inventory_batches[i],
                          inventory_batches[i].total_investment <= 0)

\* A batch edited with a body that carried total_investment and only one of
\* the three inputs, whose margin is not a whole percent.
C22_Witness ==
    \E p \in Procs :
        /\ frames[p].op = "update_batch_entry" /\ frames[p].pc = "done"
        /\ frames[p].res.status_code = 200
        /\ frames[p].req.update_data.total_investment # None
        /\ frames[p].req.update_data.quantity # None
        /\ frames[p].req.update_data.entry_price = None
        /\ \E i \in 1..Len(inventory_batches) :
               /\ inventory_batches[i].id = frames[p].req.batch_id
               /\ inventory_batches[i].total_investment > 1
               /\ inventory_batches[i].profit_margin_percent % 100 # 0

\* ---- verify_payment_status

VerifyStep(p) ==
    /\ frames'[p] # frames[p]
    /\ frames'[p].op = "verify_payment_status"

\* The upper-case spellings: a status and how it reads in capitals.
InCapitals ==
    {<<"initiated", "INITIATED">>, <<"pending", "PENDING">>,
     <<"paid", "PAID">>, <<"failed", "FAILED">>, <<"expired", "EXPIRED">>,
     <<"cancelled", "CANCELLED">>,
     <<"cancelled_for_retry", "CANCELLED_FOR_RETRY">>,
     <<"PENDING", "PENDING">>, <<"APPROVED", "APPROVED">>,
     <<"DECLINED", "DECLINED">>, <<"ERROR", "ERROR">>,
     <<"VOIDED", "VOIDED">>}

\* C23: no step of verify_payment_status changes the store; the call answers
\* 200 with, for a reference an attempt carries, that attempt's status in
\* upper case, and for a reference without attempt and without payment
\* record, PENDING.
C23_VerifyReadsOnly ==
    [][\A p \in Procs :
          VerifyStep(p) =>
              /\ UNCHANGED <<orders, discount_codes, products, email_logs,
                             inventory_batches, inventory_entries,
                             payment_attempts, payment_transactions>>
              /\ frames'[p].pc = "done" =>
                     LET reference == frames'[p].req.reference
                         i == FirstIndex(payment_attempts,
                                  LAMBDA a : a.reference = reference)
                         known == \E k \in 1..Len(payment_transactions) :
                                      payment_transactions[k].reference
                                          = reference
                     IN  /\ frames'[p].res.status_code = 200
                         /\ i # 0 =>
                                <<payment_attempts[i].status,
                                  frames'[p].res.status>> \in InCapitals
                         /\ (i = 0 /\ ~known) =>
                                frames'[p].res.status = "PENDING"]_vars

\* The answer INITIATED for a reference that was just registered.
C23_Witness ==
    \E p \in Procs :
        /\ frames[p].op = "verify_payment_status" /\ frames[p].pc = "done"
        /\ frames[p].res.status = "INITIATED"
        /\ \E i \in 1..Len(payment_attempts), k \in 1..Len(orders) :
               /\ payment_attempts[i].reference = frames[p].req.reference
               /\ payment_attempts[i].status = "initiated"
               /\ payment_attempts[i].payment_method = None
               /\ orders[k].latest_payment_reference
                      = Some(frames[p].req.reference)

\* ---- the race on the guard of create-transaction and create-pse

\* Handler q has passed the guard for the order and has not inserted yet.
InWindow(q, order_id) ==
    /\ frames[q].op \in {"create_transaction", "create_pse"}
    /\ frames[q].pc \in {"get_merchant", "find_order", "insert_attempt"}
    /\ frames[q].req.order_id = order_id

InsertStep(p) ==
    /\ frames[p].op \in {"create_transaction", "create_pse"}
    /\ frames[p].pc = "insert_attempt"
    /\ frames'[p] # frames[p]

\* C24: the guard reads the store only.  A call whose guard runs while
\* another call for the same order is between its own guard and its insert
\* passes when the store holds no blocking attempt of the order, and each
\* insert adds one more non-terminal attempt of the order to whatever the
\* store holds.
C24_GuardIsCheckThenAct ==
    [][\A p, q \in Procs :
          /\ (/\ p # q
              /\ FirstStepOf(p, "create_transaction")
              /\ InWindow(q, frames'[p].req.order_id)
              /\ ~HasNonTerminalAttempt(frames'[p].req.order_id))
                => frames'[p].pc = "get_merchant"
          /\ (/\ p # q
              /\ PseGuardStep(p)
              /\ InWindow(q, frames[p].req.order_id)
              /\ ~HasNonTerminalAttempt(frames[p].req.order_id))
                => frames'[p].pc = "get_merchant"
          /\ InsertStep(p)
                => Cardinality(NonTerminalAttempts(frames[p].req.order_id))'
                       = Cardinality(NonTerminalAttempts(
                                         frames[p].req.order_id)) + 1]_vars

\* Two calls for one order that both passed the guard and both inserted: the
\* store holds two attempts of the order in status initiated, one per call.
C24_Witness ==
    /\ \A p \in Procs :
          /\ frames[p].op \in {"create_transaction", "create_pse"}
          /\ frames[p].pc = "post_transaction"
          /\ frames[p].req.order_id = frames[1].req.order_id
    /\ frames[1].op = "create_transaction"
    /\ Cardinality(NonTerminalAttempts(frames[1].req.order_id)) = 2

\* ---- the attempt is written before the gateway is called

CreateAttemptOps == {"create_transaction", "create_pse"}

\* The attempt a call inserted: the last one carrying its reference.
OwnAttempt(f) ==
    CHOOSE i \in 1..Len(payment_attempts) :
        /\ payment_attempts[i].reference = f.unique_reference
        /\ \A j \in (i + 1)..Len(payment_attempts) :
               payment_attempts[j].reference # f.unique_reference

HasOwnAttempt(f) ==
    \E i \in 1..Len(payment_attempts) :
        payment_attempts[i].reference = f.unique_reference

\* The gateway request of a call ends without an answer.
GatewayTimesOut(p) ==
    /\ frames[p].op \in CreateAttemptOps
    /\ frames[p].pc = "post_transaction"
    /\ frames'[p].pc = "done"

\* C25: the insert step comes before the gateway request and writes the
\* attempt with status initiated; while the request is out the attempt is in
\* the store in that status; and when the gateway request ends without an answer the call
\* ends with the attempts and the orders as they were, the attempt still
\* initiated, no step of the call having written the order.
C25_AttemptWrittenBeforeGateway ==
    [][\A p \in Procs :
          /\ InsertStep(p) =>
                 /\ frames'[p].pc = "post_transaction"
                 /\ HasOwnAttempt(frames[p])'
                 /\ LET a == payment_attempts'[Len(payment_attempts')]
                    IN  /\ a.reference = frames[p].unique_reference
                        /\ a.order_id = frames[p].req.order_id
                        /\ a.status = "initiated"
                        /\ a.wompi_transaction_id = None
                 /\ orders' = orders
          /\ (frames[p].op \in CreateAttemptOps
              /\ frames[p].pc = "post_transaction") =>
                 /\ HasOwnAttempt(frames[p])
                 /\ payment_attempts[OwnAttempt(frames[p])].status
                        = "initiated"
          /\ GatewayTimesOut(p) =>
                 /\ frames'[p].res.status_code = 500
                 /\ payment_attempts' = payment_attempts
                 /\ orders' = orders]_vars

\* A call that ended on a gateway request without answer: its attempt is in
\* the store in status initiated and the order carries no reference.
C25_Witness ==
    \E p \in Procs :
        /\ frames[p].op \in CreateAttemptOps /\ frames[p].pc = "done"
        /\ frames[p].res.status_code = 500
        /\ frames[p].res.detail = "Error al procesar pago"
        /\ \E i \in 1..Len(payment_attempts), k \in 1..Len(orders) :
               /\ payment_attempts[i].order_id = frames[p].req.order_id
               /\ payment_attempts[i].status = "initiated"
               /\ orders[k].id = frames[p].req.order_id
               /\ orders[k].latest_payment_reference = None
               /\ Len(payment_attempts) = 1

\* ---- the gateway rejects the transaction

\* The reference of the call is carried by one attempt only.
ReferenceIsOwn(f) ==
    Cardinality({i \in 1..Len(payment_attempts) :
                    payment_attempts[i].reference = f.unique_reference}) = 1

GatewayRejects(p) ==
    /\ frames[p].op \in CreateAttemptOps
    /\ frames[p].pc = "fail_attempt"
    /\ frames'[p] # frames[p]

\* A step of a call before it links the order.
StepBeforeLink(p) ==
    /\ frames'[p] # frames[p]
    /\ \/ Free(p) /\ frames'[p].op \in CreateAttemptOps
       \/ /\ frames[p].op \in CreateAttemptOps
          /\ Running(p) /\ frames[p].pc # "update_order"

HasFailedAttempt(order_id) ==
    \E i \in 1..Len(payment_attempts) :
        /\ payment_attempts[i].order_id = order_id
        /\ payment_attempts[i].status = "failed"
        /\ payment_attempts[i].error # None

\* C26: when the gateway rejects the transaction, the call ends there with an
\* error (it submits nothing more), its attempt is failed with the gateway's
\* error attached, the other attempts and the orders are as they were, no
\* earlier step of the call having written the order; and a later
\* create-transaction or create-pse for an order whose attempts have all
\* failed passes the guard.
C26_GatewayRejection ==
    [][\A p \in Procs :
          /\ (GatewayRejects(p) /\ ReferenceIsOwn(frames[p])) =>
                 /\ frames'[p].pc = "done"
                 /\ frames'[p].res.status_code # 200
                 /\ Len(payment_attempts') = Len(payment_attempts)
                 /\ \A i \in 1..Len(payment_attempts) :
                        IF payment_attempts[i].reference
                               = frames[p].unique_reference
                        THEN /\ payment_attempts'[i].status = "failed"
                             /\ payment_attempts'[i].error # None
                             /\ payment_attempts'[i].order_id
                                    = frames[p].req.order_id
                        ELSE payment_attempts'[i] = payment_attempts[i]
          /\ StepBeforeLink(p) => orders' = orders
          /\ (/\ FirstStepOf(p, "create_transaction")
              /\ HasFailedAttempt(frames'[p].req.order_id)
              /\ ~HasNonTerminalAttempt(frames'[p].req.order_id))
                => frames'[p].pc = "get_merchant"
          /\ (/\ PseGuardStep(p)
              /\ \/ HasFailedAttempt(frames[p].req.order_id)
                 \/ \E i \in 1..Len(payment_attempts) :
                        /\ payment_attempts[i].order_id
                               = frames[p].req.order_id
                        /\ payment_attempts[i].status = "cancelled_for_retry"
                        /\ payment_attempts[i].error # None
              /\ ~HasNonTerminalAttempt(frames[p].req.order_id))
                => frames'[p].pc = "get_merchant"]_vars

\* A later create-transaction that passed the guard for an order whose one
\* attempt was rejected by the gateway, the order still without reference.
C26_Witness ==
    \E p \in Procs :
        /\ frames[p].op = "create_transaction"
        /\ frames[p].pc = "get_merchant"
        /\ Len(payment_attempts) = 1
        /\ payment_attempts[1].order_id = frames[p].req.order_id
        /\ payment_attempts[1].status = "failed"
        /\ payment_attempts[1].error # None
        /\ \E k \in 1..Len(orders) :
               /\ orders[k].id = frames[p].req.order_id
               /\ orders[k].latest_payment_reference = None
               /\ orders[k].payment_status = "pending"

\* ---- the gateway accepts the transaction

GatewayAccepts(p) ==
    /\ frames[p].op \in CreateAttemptOps
    /\ frames[p].pc = "update_attempt"
    /\ frames'[p] # frames[p]

LinksOrder(p) ==
    /\ frames[p].op \in CreateAttemptOps
    /\ frames[p].pc = "update_order"
    /\ frames'[p] # frames[p]

\* Every reference an order carries is that of an attempt of the order.
LatestReferenceHasAttempt ==
    \A k \in 1..Len(orders) :
        orders[k].latest_payment_reference # None =>
            \E i \in 1..Len(payment_attempts) :
                /\ payment_attempts[i].reference
                       = Val(orders[k].latest_payment_reference)
                /\ payment_attempts[i].order_id = orders[k].id

\* C27: when the gateway accepts the transaction, the call's attempt gets the
\* gateway's transaction id and the status the gateway reported, and the
\* call ends in success with the order's latest_payment_reference equal to
\* the attempt's reference; and in every state reached, a
\* latest_payment_reference that is set is the reference of an attempt whose
\* order_id is that order.
C27_AcceptedAttemptLinked ==
    [][/\ \A p \in Procs :
             /\ (GatewayAccepts(p) /\ ReferenceIsOwn(frames[p])) =>
                    \A i \in 1..Len(payment_attempts) :
                        IF payment_attempts[i].reference
                               = frames[p].unique_reference
                        THEN /\ payment_attempts'[i].wompi_transaction_id
                                    # None
                             /\ payment_attempts'[i].wompi_transaction_id
                                    = <<<<"tx", frames[p].unique_reference>>>>
                             /\ payment_attempts'[i].status
                                    = frames[p].wompi_status
                             /\ payment_attempts'[i].order_id
                                    = frames[p].req.order_id
                        ELSE payment_attempts'[i] = payment_attempts[i]
             /\ LinksOrder(p) =>
                    /\ frames'[p].res.status_code = 200
                    /\ frames'[p].res.reference = frames[p].unique_reference
                    /\ \A k \in 1..Len(orders) :
                           orders[k].id = frames[p].req.order_id =>
                               orders'[k].latest_payment_reference
                                   = Some(frames[p].unique_reference)
       /\ LatestReferenceHasAttempt
       /\ LatestReferenceHasAttempt']_vars

\* A create-pse call that ended in success: its attempt carries the gateway's
\* id and status and the order carries its reference.
C27_Witness ==
    \E p \in Procs :
        /\ frames[p].op = "create_pse" /\ frames[p].pc = "done"
        /\ frames[p].res.status_code = 200
        /\ \E i \in 1..Len(payment_attempts), k \in 1..Len(orders) :
               /\ payment_attempts[i].reference = frames[p].res.reference
               /\ payment_attempts[i].wompi_transaction_id # None
               /\ payment_attempts[i].status = frames[p].res.status
               /\ orders[k].id = payment_attempts[i].order_id
               /\ orders[k].latest_payment_reference
                      = Some(frames[p].res.reference)

\* ---- stale attempts

\* Every non-terminal attempt of the order is older than the timeout, and
\* there is one.
OnlyStaleAttempts(order_id) ==
    /\ HasNonTerminalAttempt(order_id)
    /\ \A i \in NonTerminalAttempts(order_id) :
           now - payment_attempts[i].created_at > PENDING_TIMEOUT_MINUTES

\* C28 (violated by the code).  A create-transaction or create-pse call for
\* an order whose non-terminal attempts are all older than fifteen minutes
\* is not refused at the guard.
C28_StaleAttemptNeverBlocks ==
    [][\A p \in Procs :
          /\ (/\ FirstStepOf(p, "create_transaction")
              /\ OnlyStaleAttempts(frames'[p].req.order_id))
                => ~Conflict(frames'[p])
          /\ (/\ PseGuardStep(p)
              /\ OnlyStaleAttempts(frames[p].req.order_id))
                => ~Conflict(frames'[p])]_vars

\* ---- late webhook events

\* An order that is paid and confirmed and carries the reference.
SettledOrder(reference) ==
    \E k \in 1..Len(orders) :
        /\ orders[k].latest_payment_reference = reference
        /\ orders[k].payment_status = "paid"
        /\ orders[k].order_status = "confirmed"

TerminalStatuses == {"paid", "failed", "cancelled", "expired"}

\* C30 (violated by the code).  No step changes the status of an attempt
\* that is paid, failed, cancelled or expired.
C30_TerminalStatusIsFinal ==
    [][\A i \in 1..Len(payment_attempts) :
          payment_attempts[i].status \in TerminalStatuses =>
              payment_attempts'[i].status = payment_attempts[i].status]_vars

\* The orders that carry the discount code `code`.
OrdersCarrying(code) ==
    {k \in 1..Len(orders) : orders[k].discount_code = Some(code)}

\* ---- C31 (violated by the code).  Redemption is atomic with order creation:
\* in every reachable state, each discount code has exactly one recorded
\* redemption (one unit of current_uses and one entry of used_by) per
\* persisted order that carries it: no order without its redemption, no
\* redemption without its order.
C31_RedemptionAtomicWithOrder ==
    \A i \in 1..Len(discount_codes) :
        /\ discount_codes[i].current_uses
               = Cardinality(OrdersCarrying(discount_codes[i].code))
        /\ Len(discount_codes[i].used_by)
               = Cardinality(OrdersCarrying(discount_codes[i].code))

\* A checkout that create_order refuses because of its discount code, and
\* the reasons it gives.
DiscountRefusals ==
    {"Invalid discount code", "Discount code expired",
     "Discount code limit reached",
     "You have already used this discount code"}

RefusedForDiscount(f) ==
    /\ f.op = "create_order" /\ f.pc = "done"
    /\ f.res.status_code = 400
    /\ f.res.detail \in DiscountRefusals

\* ---- C32.  A checkout that create_order refuses because of its discount
\* code (missing or inactive, expired, exhausted, already used by this
\* customer) has persisted nothing: the step that answers leaves the orders,
\* the discount codes (current_uses and used_by), every stock count and the
\* notification log as they were.
C32_DiscountRefusalPersistsNothing ==
    [][\A p \in Procs :
          /\ Free(p) /\ frames'[p] # frames[p]
          /\ RefusedForDiscount(frames'[p])
          => UNCHANGED <<orders, discount_codes, products, email_logs>>
      ]_vars

\* A checkout refused for a code the customer has already used, in a store
\* that holds her earlier order, its redemption and its notification.
C32_Witness ==
    /\ RefusedForDiscount(frames[1])
    /\ frames[1].res.detail = "You have already used this discount code"
    /\ Len(orders) = 1 /\ Len(email_logs) = 1
    /\ discount_codes[1].current_uses = 1
    /\ products["RUN-0001"][<<"hombre_fan", "M">>] = -5

\* ---- refused payment attempts

\* The guard of create-pse refuses: a PENDING attempt of the order that is
\* not older than the timeout (lines 1589-1608).
HasFreshPending(order_id) ==
    \E i \in 1..Len(payment_attempts) :
        /\ payment_attempts[i].order_id = order_id
        /\ payment_attempts[i].status = "PENDING"
        /\ now - payment_attempts[i].created_at <= PENDING_TIMEOUT_MINUTES

\* The call of frame f is one that will be refused: its order does not
\* exist, or the guard of its entry point finds an attempt in flight.  No
\* other request is served and the clock does not move while it runs.
RefusalAhead(f) ==
    \/ ~OrderExists(f.req.order_id)
    \/ f.op = "create_transaction" /\ PendingIndex(f.req.order_id) # 0
    \/ f.op = "create_pse" /\ HasFreshPending(f.req.order_id)

\* Every attempt in the store was given a reference of its own.
OwnReferences ==
    \A i, j \in 1..Len(payment_attempts) :
        i # j => payment_attempts[i].reference # payment_attempts[j].reference

RefusedAttempt(f) ==
    /\ f.op \in {"create_transaction", "create_pse"}
    /\ f.pc = "done"
    /\ f.res.status_code \in {404, 409}

\* ---- C33 (violated by the code).  A create-transaction or create-pse call
\* that is refused with Conflict (an attempt is in flight) or NotFound (the
\* order does not exist) leaves the payment attempts and the orders
\* unchanged: none of its steps, from the first to the one that answers,
\* inserts an attempt or changes the status of one.  (Stated for stores
\* whose attempts carry references of their own.)
C33_RefusedAttemptChangesNothing ==
    [][\A p \in Procs :
          /\ (/\ Free(p) /\ frames'[p] # frames[p]
              /\ OwnReferences
              /\ frames'[p].op \in {"create_transaction", "create_pse"}
              /\ RefusalAhead(frames'[p]))
                 => UNCHANGED <<payment_attempts, orders>>
          /\ (/\ Running(p) /\ frames'[p] # frames[p]
              /\ RefusedAttempt(frames'[p]))
                 => UNCHANGED <<payment_attempts, orders>>
      ]_vars

\* ---- notification of the pickup token

\* The step of create_order in which the notification is dispatched.
DispatchStep(p) ==
    /\ frames[p].op = "create_order" /\ frames[p].pc = "send_email"
    /\ frames'[p] # frames[p]

\* ---- C34 (violated by the code).  For a cash-on-delivery checkout the
\* dispatch of the pickup-token notification, whether it succeeds or fails,
\* does not abort order creation: the handler goes on to insert the order it
\* built, with its pickup token (and from there returns it and decrements
\* the stock).
C34_DispatchFailureDoesNotAbort ==
    [][\A p \in Procs :
          DispatchStep(p)
              => /\ frames'[p].pc = "insert_order"
                 /\ frames'[p].order_dict = frames[p].order_dict
                 /\ frames'[p].order_dict.pickup_token # None
      ]_vars

\* ---- stock

\* The units of (code, sku) that the line items `items` order.
RECURSIVE OrderedQuantity(_, _, _)
OrderedQuantity(items, code, sku) ==
    IF items = <<>> THEN 0
    ELSE (IF /\ Head(items).product_code = code
             /\ Head(items).version_type = sku[1]
             /\ Head(items).size = sku[2]
          THEN Head(items).quantity ELSE 0)
             + OrderedQuantity(Tail(items), code, sku)

CheckoutStarts(p) ==
    /\ Free(p) /\ frames'[p] # frames[p]
    /\ frames'[p].op = "create_order"

OrderInsertStep(p) ==
    /\ frames[p].op = "create_order" /\ frames[p].pc = "insert_order"
    /\ frames'[p] # frames[p]

StockStep(p) ==
    /\ frames[p].op = "create_order" /\ frames[p].pc = "update_stock"
    /\ frames'[p] # frames[p]

\* ---- C35.  create_order never refuses a checkout for insufficient stock:
\* whatever the stock, a checkout without discount code is accepted, its
\* order is inserted and answered 200, and its last step takes from the stock
\* of each (product, variant, size) exactly the units its line items order,
\* below zero if need be.
C35_NoStockCheck ==
    [][\A p \in Procs :
          /\ (CheckoutStarts(p) /\ ~TruthyStr(frames'[p].req.discount_code))
                 => frames'[p].pc \in {"send_email", "insert_order"}
          /\ OrderInsertStep(p)
                 => /\ orders' = Append(orders, frames[p].order_dict)
                    /\ Running(p)'
          /\ StockStep(p)
                 => /\ frames'[p].pc = "done"
                    /\ frames'[p].res.status_code = 200
                    /\ \A code \in DOMAIN products :
                         \A sku \in DOMAIN products[code] :
                           products'[code][sku] = products[code][sku]
                               - OrderedQuantity(frames[p].req.items,
                                                 code, sku)
      ]_vars

\* A checkout of five units answered 200 on a stock of four, now at -1.
C35_Witness ==
    \E p \in Procs :
        /\ frames[p].op = "create_order" /\ frames[p].pc = "done"
        /\ frames[p].res.status_code = 200
        /\ SumOver(frames[p].req.items, "quantity") = 5
        /\ Len(orders) = 1 /\ Len(inventory_entries) = 1
        /\ products["RUN-0001"][<<"hombre_fan", "M">>] = -1

\* The steps that change a stock count: the last step of a checkout, the
\* second step of an inventory entry, and a product edit that carries a
\* stock field.
EntryStep(p) ==
    /\ frames[p].op = "add_inventory_entry"
    /\ frames[p].pc = "update_product"
    /\ frames'[p] # frames[p]

\* (A repeated edit may leave the slot's frame as it was.)
StockEditStep(p) ==
    /\ Free(p)
    /\ frames'[p].op = "update_product"
    /\ frames'[p].req.data.stock # None
    /\ products' = [products EXCEPT ![frames'[p].req.product_id] =
                        Val(frames'[p].req.data.stock)]

\* The stock of (code, sku) moves by `delta` and no other count moves.
StockMovesBy(code, sku, delta) ==
    products' = [products EXCEPT ![code][sku] = @ + delta]

EntryAdds(p) ==
    LET entry == frames[p].req
    IN  IF entry.product_code \in DOMAIN products
        THEN StockMovesBy(entry.product_code,
                          <<entry.version_type, entry.size>>, entry.quantity)
        ELSE products' = products

CheckoutTakes(p) ==
    \A code \in DOMAIN products :
        \A sku \in DOMAIN products[code] :
            products'[code][sku] = products[code][sku]
                - OrderedQuantity(frames[p].req.items, code, sku)

MutableFields ==
    {"payment_status", "order_status", "pickup_token_used",
     "latest_payment_reference", "wompi_transaction_id", "payment_reference",
     "payment_attempts"}

\* The order without those fields.
Frozen(o) == [field \in DOMAIN o \ MutableFields |-> o[field]]

\* ---- C36.  Once an order is stored, no status update, consume,
\* payment-attempt operation, webhook or notification changes its line
\* items, subtotal, discount code, discount_amount, shipping_cost or
\* total_amount, nor anything else of it but payment_status, order_status,
\* pickup_token_used and the payment references and attempt list; and none
\* removes it.
C36_OrderFiguresAreFrozen ==
    [][\A k \in 1..Len(orders) :
          /\ Len(orders') >= k
          /\ Frozen(orders'[k]) = Frozen(orders[k])
          /\ orders'[k].items = orders[k].items
          /\ orders'[k].subtotal = orders[k].subtotal
          /\ orders'[k].discount_code = orders[k].discount_code
          /\ orders'[k].discount_amount = orders[k].discount_amount
          /\ orders'[k].shipping_cost = orders[k].shipping_cost
          /\ orders'[k].total_amount = orders[k].total_amount
      ]_vars

\* An order paid on delivery that has been consumed, given a payment
\* reference and then cancelled, with the figures create_order gave it.
C36_Witness ==
    /\ Len(orders) = 1
    /\ orders[1].pickup_token_used
    /\ orders[1].latest_payment_reference # None
    /\ orders[1].order_status = "cancelled"
    /\ orders[1].subtotal = 425000
    /\ orders[1].shipping_cost = 15000
    /\ orders[1].total_amount = 440000

\* ---- redemptions

RedeemStep(p) ==
    /\ frames[p].op = "create_order" /\ frames[p].pc = "update_discount"
    /\ frames'[p] # frames[p]

\* Document i gains one use and one redemption entry, that of the customer
\* of frame f, and nothing else of it changes.
RedeemedOnce(i, f) ==
    /\ discount_codes[i].code = Val(f.req.discount_code)
    /\ discount_codes'[i].current_uses = discount_codes[i].current_uses + 1
    /\ Len(discount_codes'[i].used_by) = Len(discount_codes[i].used_by) + 1
    /\ SubSeq(discount_codes'[i].used_by, 1, Len(discount_codes[i].used_by))
           = discount_codes[i].used_by
    /\ discount_codes'[i].used_by[Len(discount_codes'[i].used_by)].name
           = f.req.shipping_address.full_name
    /\ [discount_codes'[i] EXCEPT !.current_uses = 0, !.used_by = <<>>]
           = [discount_codes[i] EXCEPT !.current_uses = 0, !.used_by = <<>>]

UsesMinusRedemptions(d) == d.current_uses - Len(d.used_by)

\* ---- C38.  Every successful create_order that carries a discount code
\* goes, after inserting its order, through one update that adds 1 to the
\* current_uses of one document of that code and appends one redemption
\* entry to it; a checkout without code goes from the insert to the stock,
\* and no other step (a refused checkout among them) changes a stored code.
\* So, under any interleaving, current_uses minus the length of used_by
\* never changes for a stored code.
C38_OneUseOneRedemption ==
    [][/\ \A p \in Procs :
            /\ OrderInsertStep(p)
                   => frames'[p].pc =
                          IF TruthyStr(frames[p].req.discount_code)
                          THEN "update_discount" ELSE "update_stock"
            /\ RedeemStep(p)
                   => /\ Len(discount_codes') = Len(discount_codes)
                      /\ \E i \in 1..Len(discount_codes) :
                             /\ RedeemedOnce(i, frames[p])
                             /\ \A j \in 1..Len(discount_codes) :
                                    j # i => discount_codes'[j]
                                                 = discount_codes[j]
       /\ (\A p \in Procs : ~RedeemStep(p))
              => \A i \in 1..Len(discount_codes) :
                     /\ Len(discount_codes') >= i
                     /\ discount_codes'[i] = discount_codes[i]
       /\ \A i \in 1..Len(discount_codes) :
              /\ Len(discount_codes') >= i
              /\ UsesMinusRedemptions(discount_codes'[i])
                     = UsesMinusRedemptions(discount_codes[i])
      ]_vars

\* Two checkouts in flight together, both past the redemption, on a code
\* created with one use already counted: three uses, two redemption entries.
C38_Witness ==
    /\ Len(discount_codes) = 1
    /\ discount_codes[1].current_uses = 3
    /\ Len(discount_codes[1].used_by) = 2
    /\ \A p \in Procs : /\ frames[p].op = "create_order"
                        /\ frames[p].pc = "update_stock"
                        /\ TruthyStr(frames[p].req.discount_code)

\* ---- check-pending and the guards

CheckPendingStep(p) ==
    /\ Free(p) /\ frames'[p] # frames[p]
    /\ frames'[p].op = "check_pending_payment"

CreateTransactionStarts(p) ==
    /\ Free(p) /\ frames'[p] # frames[p]
    /\ frames'[p].op = "create_transaction"

GuardOfPse(p) ==
    /\ frames[p].op = "create_pse" /\ frames[p].pc = "check_pending"
    /\ frames'[p] # frames[p]

\* ---- C39 (violated by the code).  In every store state and for every
\* order id, check-pending answers has_pending = true exactly when the guard
\* of a createAttempt for that order answers Conflict: check-pending reports
\* an attempt that is initiated or pending, the guard of create-transaction
\* refuses exactly then, and so does the guard of create-pse.
C39_CheckPendingAgreesWithGuards ==
    [][\A p \in Procs :
          /\ CheckPendingStep(p)
                 => (frames'[p].res.has_pending
                        <=> HasNonTerminalAttempt(frames'[p].req.order_id))
          /\ CreateTransactionStarts(p)
                 => (Conflict(frames'[p])
                        <=> HasNonTerminalAttempt(frames'[p].req.order_id))
          /\ GuardOfPse(p)
                 => (Conflict(frames'[p])
                        <=> HasNonTerminalAttempt(frames[p].req.order_id))
      ]_vars

\* ---- the validations

ValidateTokenStep(p) ==
    /\ Free(p) /\ frames'[p] # frames[p]
    /\ frames'[p].op = "validate_pickup_token"

\* ---- C40.  The two validations are read-only: a validate_discount_code
\* call, whatever it answers, leaves every discount code (current_uses and
\* used_by with it) as it was, and a validate_pickup_token call leaves every
\* order (pickup_token_used, payment_status and order_status with it) as it
\* was; neither writes anything else.
C40_ValidationsReadOnly ==
    [][\A p \in Procs :
          (ValidateDiscountStep(p) \/ ValidateTokenStep(p))
              => UNCHANGED <<orders, discount_codes, products, email_logs,
                             payment_attempts>>
      ]_vars

\* A pickup token just validated as valid, for an order that redeemed a
\* code limited to one use: the token is still unused and the order pending.
C40_Witness ==
    /\ frames[1].op = "validate_pickup_token"
    /\ frames[1].pc = "done"
    /\ frames[1].res.status_code = 200
    /\ Len(orders) = 1
    /\ ~orders[1].pickup_token_used
    /\ orders[1].payment_status = "pending"
    /\ orders[1].order_status = "pending"
    /\ Len(discount_codes) = 1
    /\ discount_codes[1].max_uses = Some(1)
    /\ discount_codes[1].current_uses = 1

====
